---- MODULE Spec2Model ----
(***************************************************************************)
(* A model of the Cosmos transaction fetcher (Cordtus/txFetcher).          *)
(*                                                                         *)
(* The code modelled is class TransactionFetcher (src/README.md, from line *)
(* 323 on: fetchWithRetry, queryTxsByEvent, getAddressQueries,             *)
(* fetchAllTransactions, deduplicateTransactions, parseTransaction,        *)
(* extractTransfers, parseAmount, generateSummary, fetchViaRestAPI) and,   *)
(* of FixedRPCTransactionFetcher (src/fetchWithREST.js), the identical     *)
(* deduplicateTransactions, parseTransaction and fetchWalletTransactions.  *)
(*                                                                         *)
(* Specifications:                                                         *)
(*   SpecDedup     deduplicateTransactions as a pure function, applied to  *)
(*                 every list of raw records up to MaxLen;                 *)
(*   Spec          one call of fetchAllTransactions against a tx_search    *)
(*                 service that may fail, step by step;                    *)
(*   SpecLive      Spec with the assumption that a step that is possible   *)
(*                 is eventually taken;                                    *)
(*   SpecEnvelope  queryTxsByEvent reading one success response, in the    *)
(*                 wrapped or the unwrapped form;                          *)
(*   SpecAmount    parseAmount as a pure function, applied to every string *)
(*                 up to MaxStr characters and to some longer ones;        *)
(*   SpecParse     parseTransaction (of the three fetchers) and            *)
(*                 extractTransfers applied to raw records, well-formed    *)
(*                 and malformed, once and again;                          *)
(*   SpecRest      one call of fetchViaRestAPI against a REST service that *)
(*                 pages by cursor and may fail;                           *)
(*   SpecWallet    one call of fetchWalletTransactions of                  *)
(*                 FixedRPCTransactionFetcher, step by step;               *)
(*   SpecSummary   generateSummary applied to every list of up to SumLen   *)
(*                 raw records, in one order and in another.               *)
(***************************************************************************)
EXTENDS Integers, Sequences, FiniteSets, TLC

VARIABLES
    \* ---- SpecDedup: one use of deduplicateTransactions
    dpc,              \* "input" | "deduped" | "rededuped" | "remerged"
    allTxs,           \* the working list handed to deduplicateTransactions
    unique,           \* the list the last call returned
    firstUnique,      \* the list the first call returned
    \* ---- Spec: one call of fetchAllTransactions
    total,            \* the service: number of records matching each query
    pc,               \* position of the (single) thread of control
    qi,               \* fetchAllTransactions: index of the query of the for loop
    allTransactions,  \* fetchAllTransactions: allTransactions
    uniqueTxs,        \* fetchAllTransactions: the value returned
    transactions,     \* queryTxsByEvent: transactions
    page,             \* queryTxsByEvent: page
    hasMore,          \* queryTxsByEvent: hasMore
    totalCount,       \* queryTxsByEvent: totalCount of the last response read
    attempt,          \* fetchWithRetry: attempt
    trace,            \* the current query's calls of fetch and setTimeout and
                      \* its console lines, in order
    qEnd,             \* how each query's pagination ended
    reply,            \* what the service did with the current query's last
                      \* request: "page" | "failure" | "error" | "unknown",
                      \* "none" before the answer
    faults,           \* failures the service has produced so far
    \* ---- SpecEnvelope: one response read by queryTxsByEvent
    epc,              \* "input" | "read"
    envelope,         \* the fields of the answer: txs and total_count, each
                      \* present or missing
    before,           \* transactions and page when the answer arrives
    shape,            \* the form the answer came in: "wrapped" | "unwrapped"
    \* ---- SpecAmount: one call of parseAmount
    apc,              \* "input" | "parsed"
    amountStr,        \* the argument
    amounts,          \* the value returned
    \* ---- SpecParse: calls of parseTransaction and extractTransfers
    ppc,              \* "input" | "parsed" | "reparsed" | "extracted"
    raw0,             \* the raw record as it was handed over
    raw,              \* the raw record as the calls have left it
    target,           \* targetAddress
    parsedBy,         \* the fetcher whose parseTransaction was called
    firstParsed,      \* what the first call of parseTransaction returned
    parsed,           \* what the last call of parseTransaction returned
    transfers,        \* what extractTransfers returned
    \* ---- SpecRest: one call of fetchViaRestAPI
    rpc,              \* position of the thread of control
    restTotal,        \* the service: number of records matching the events
    restTransactions, \* fetchViaRestAPI: transactions
    nextKey,          \* fetchViaRestAPI: nextKey
    restAttempt,      \* fetchWithRetry: attempt
    restTrace,        \* the requests, waits and console lines of the call
    restFaults,       \* number of failed attempts so far
    \* ---- SpecWallet: one call of FixedRPCTransactionFetcher.fetchWalletTransactions
    wpc,              \* position of the thread of control
    walletTotal,      \* the service: number of records matching each query
    wqi,              \* index of the query of the for loop
    walletTransactions, \* fetchWalletTransactions: transactions
    walletPage,       \* fetchWalletTransactions: page
    walletHasMore,    \* fetchWalletTransactions: hasMore
    walletTrace,      \* the requests of the call and how each was answered
    walletFaults,     \* number of requests that failed so far
    walletUnique,     \* fetchWalletTransactions: the value returned
    \* ---- SpecSummary: calls of generateSummary
    spc,              \* "input" | "summarised" | "threw"
    sumInput,         \* the records fetched, in the order they are handed over
    sumAddress,       \* the address handed to generateSummary
    sumTransactions,  \* the list handed to generateSummary, as the call leaves it
    summary,          \* what generateSummary returned for the list
    summaryBefore     \* what it returned for the same records in the order before

dvars == <<dpc, allTxs, unique, firstUnique>>
fvars == <<total, pc, qi, allTransactions, uniqueTxs, transactions, page,
           hasMore, totalCount, attempt, trace, qEnd, reply, faults>>
evars == <<epc, envelope, before, shape>>
avars == <<apc, amountStr, amounts>>
pvars == <<ppc, raw0, raw, target, parsedBy, firstParsed, parsed, transfers>>
rvars == <<rpc, restTotal, restTransactions, nextKey, restAttempt, restTrace, restFaults>>
wvars == <<wpc, walletTotal, wqi, walletTransactions, walletPage, walletHasMore,
           walletTrace, walletFaults, walletUnique>>
svars == <<spc, sumInput, sumAddress, sumTransactions, summary, summaryBefore>>
vars == <<dvars, fvars, evars, avars, pvars, rvars, wvars, svars>>

(***************************************************************************)
(* Program constants (src/README.md lines 332-335).                        *)
(***************************************************************************)
MAX_RETRIES == 3
RETRY_DELAY == 1000
PAGE_SIZE == 100
RATE_LIMIT_DELAY == 200

(***************************************************************************)
(* Bounds of the model.                                                    *)
(***************************************************************************)
MaxLen == 3        \* SpecDedup: longest input list
MaxFaults == 3     \* Spec: failures (network, service error, unknown
                   \* envelope) the service produces in one run
MaxStr == 4        \* SpecAmount: longest enumerated amount string

(***************************************************************************)
(* JavaScript values.  A field that is absent reads as undefined; ""       *)
(* and undefined are falsy, every other string is truthy.                  *)
(***************************************************************************)
Undefined == "<undefined>"

Truthy(v) == v # Undefined /\ v # ""

\* a || b
Or(a, b) == IF Truthy(a) THEN a ELSE b

Range(s) == {s[i] : i \in 1..Len(s)}

(***************************************************************************)
(* A raw record: hash and txhash are strings or undefined, height is the   *)
(* decimal string of the block height (a sequence of digits), tx stands    *)
(* for the rest of the payload.                                            *)
(***************************************************************************)
RawRecord(hash, txhash, height, tx) ==
    [hash |-> hash, txhash |-> txhash, height |-> height, tx |-> tx]

(***************************************************************************)
(* deduplicateTransactions.  txMap is a JavaScript Map: its entries keep   *)
(* the order of first insertion; keys holds the key set for has().         *)
(***************************************************************************)
EmptyMap == [keys |-> {}, entries |-> <<>>]

MapHas(txMap, key) == key \in txMap.keys

\* Map.prototype.set: a new key is appended, an old key keeps its place
MapSet(txMap, key, value) ==
    IF key \in txMap.keys
    THEN [txMap EXCEPT !.entries =
             [i \in 1..Len(@) |-> IF @[i].key = key
                                   THEN [key |-> key, value |-> value]
                                   ELSE @[i]]]
    ELSE [keys |-> txMap.keys \cup {key},
          entries |-> Append(txMap.entries, [key |-> key, value |-> value])]

\* Array.from(txMap.values())
MapValues(txMap) == [i \in 1..Len(txMap.entries) |-> txMap.entries[i].value]

\* faulty variant: the txhash alias is not read
HashKey_hashOnly(tx) == tx.hash

\* const hash = tx.hash || tx.txhash
HashKey(tx) == Or(tx.hash, tx.txhash)

\* faulty variant: the has() test is missing: a later record replaces the one kept
DedupStep_lastWins(txMap, tx) ==
    LET hash == HashKey(tx)
    IN  IF Truthy(hash) THEN MapSet(txMap, hash, tx) ELSE txMap

\* faulty variant: the test of hash is missing: a record without hash is kept
\* under the key undefined or ""
DedupStep_keepUnhashed(txMap, tx) ==
    LET hash == HashKey(tx)
    IN  IF ~MapHas(txMap, hash) THEN MapSet(txMap, hash, tx) ELSE txMap

\* the body of the for loop: if (hash && !txMap.has(hash)) txMap.set(hash, tx)
DedupStep(txMap, tx) ==
    LET hash == HashKey(tx)
    IN  IF Truthy(hash) /\ ~MapHas(txMap, hash)
        THEN MapSet(txMap, hash, tx)
        ELSE txMap

\* for (const tx of transactions) over list[lo..hi], in list order, from
\* the map txMap (a map without keys is the empty map); the range is halved
\* so that the evaluation nests only log(hi - lo) deep
RECURSIVE DedupLoop(_, _, _, _)
DedupLoop(list, lo, hi, txMap) ==
    IF lo > hi THEN txMap
    ELSE IF lo = hi THEN DedupStep(txMap, list[lo])
    ELSE LET mid == (lo + hi) \div 2
             left == DedupLoop(list, lo, mid, txMap)
         IN  \* the test makes TLC compute left before it goes on
             IF left.keys = {} THEN DedupLoop(list, mid + 1, hi, EmptyMap)
             ELSE DedupLoop(list, mid + 1, hi, left)

\* faulty variant: records are only filtered on having a hash, none is dropped as
\* a duplicate
deduplicateTransactions_keepAll(list) ==
    SelectSeq(list, LAMBDA tx : Truthy(HashKey(tx)))

deduplicateTransactions(list) == MapValues(DedupLoop(list, 1, Len(list), EmptyMap))

(***************************************************************************)
(* The tx_search service.  The ledger holds numbered transactions; the     *)
(* record of transaction n has hash "Hn" and a block height between 8 and  *)
(* 12.  Each query matches a fixed list of records, of which the service   *)
(* holds the first total[q]:                                               *)
(*   query 1  transactions 1, 2, 3, ...           (several pages)          *)
(*   query 2  transactions 2 and 301, and 302 in the REST shape (txhash)   *)
(*   query 3  a record without hash and txhash, and transaction 301        *)
(***************************************************************************)
RECURSIVE Digits(_)
Digits(n) == IF n < 10 THEN <<n>> ELSE Append(Digits(n \div 10), n % 10)

Tx(n) == RawRecord("H" \o ToString(n), Undefined, Digits(8 + (n % 5)), n)

MaxTotal == <<250, 3, 2>>

Ledger ==
    << [i \in 1..MaxTotal[1] |-> Tx(i)],
       << Tx(2), Tx(301), RawRecord(Undefined, "H302", Digits(11), 302) >>,
       << RawRecord(Undefined, Undefined, Digits(9), 0), Tx(301) >> >>

Totals == << {0, 200, 250}, {0, 3}, {1, 2} >>

Min(a, b) == IF a < b THEN a ELSE b

\* the first n records of a list
Prefix(list, n) == SubSeq(list, 1, Min(n, Len(list)))

\* the records of page p (per_page = PAGE_SIZE) of query q; a page past the
\* end is empty
PageOf(q, p) ==
    SubSeq(Ledger[q], (p - 1) * PAGE_SIZE + 1, Min(p * PAGE_SIZE, total[q]))

\* the response envelopes (src/README_COSMOS_TX_FETCHER.md lines 296-318);
\* a JSON object is a record, an absent key is absent from its domain
WrappedEnvelope(txs, n) == [result |-> [txs |-> txs, total_count |-> n]]
UnwrappedEnvelope(txs, n) == [txs |-> txs, total_count |-> n]
ErrorEnvelope == [error |-> [message |-> "Internal error", data |-> "index not available"]]
UnknownEnvelope == [jsonrpc |-> "2.0"]

\* what the service answers to a well-formed request for page p of query q
SuccessEnvelopes(q, p) ==
    { WrappedEnvelope(PageOf(q, p), total[q]), UnwrappedEnvelope(PageOf(q, p), total[q]) }

(***************************************************************************)
(* getAddressQueries: the three event queries, in order.                   *)
(***************************************************************************)
getAddressQueries ==
    << "message.sender", "transfer.recipient", "coin_received.receiver" >>

Queries == 1..Len(getAddressQueries)

(***************************************************************************)
(* queryTxsByEvent: reading a response.                                    *)
(***************************************************************************)
\* faulty variant: the error object is not looked at
IsServiceError_never(response) == FALSE

\* faulty variant: a response of no known shape counts as a service error
IsServiceError_orUnknown(response) ==
    "error" \in DOMAIN response \/ DOMAIN response \cap {"result", "txs"} = {}

\* if (response.error)
IsServiceError(response) == "error" \in DOMAIN response

\* faulty variant: only the wrapped form is read
ExtractTxs_wrappedOnly(response) ==
    IF "result" \in DOMAIN response
    THEN IF "txs" \in DOMAIN response.result THEN response.result.txs ELSE <<>>
    ELSE <<>>

\* let txs = []; if (response.result) txs = response.result.txs || []
\* else if (response.txs) txs = response.txs || []
ExtractTxs(response) ==
    IF "result" \in DOMAIN response
    THEN IF "txs" \in DOMAIN response.result THEN response.result.txs ELSE <<>>
    ELSE IF "txs" \in DOMAIN response THEN response.txs ELSE <<>>

\* let totalCount = '0'; ... = response.result.total_count || '0'
ExtractTotalCount(response) ==
    IF "result" \in DOMAIN response
    THEN IF "total_count" \in DOMAIN response.result THEN response.result.total_count ELSE 0
    ELSE IF "txs" \in DOMAIN response /\ "total_count" \in DOMAIN response
         THEN response.total_count ELSE 0

\* the else branch: console.warn('Unexpected response format:', ...)
IsUnexpectedFormat(response) ==
    "result" \notin DOMAIN response /\ "txs" \notin DOMAIN response

\* faulty variant: pagination goes on until a page comes back empty
HasMoreAfter_untilEmpty(txs) == Len(txs) > 0

\* hasMore = txs.length === PAGE_SIZE
HasMoreAfter(txs) == Len(txs) = PAGE_SIZE

\* faulty variant: the backoff does not grow with the attempt
RetryDelayFor_fixed(k) == RETRY_DELAY

\* await setTimeout(RETRY_DELAY * attempt)
RetryDelayFor(k) == RETRY_DELAY * k

\* if (attempt === retries) throw error   (retries = MAX_RETRIES)
LastAttempt(k) == k = MAX_RETRIES

(***************************************************************************)
(* Array.prototype.sort((a, b) => parseInt(b.height) - parseInt(a.height)) *)
(* The sort is stable: the result lists the records by descending          *)
(* parseInt(height), records of equal height in their former order.        *)
(***************************************************************************)
RECURSIVE parseInt(_)
parseInt(digits) ==
    IF Len(digits) = 0 THEN 0
    ELSE 10 * parseInt(SubSeq(digits, 1, Len(digits) - 1)) + digits[Len(digits)]

SetMax(S) == CHOOSE m \in S : \A x \in S : x <= m

RECURSIVE SortRuns(_, _)
SortRuns(list, keys) ==
    IF keys = {} THEN <<>>
    ELSE LET k == SetMax(keys)
         IN  SelectSeq(list, LAMBDA r : parseInt(r.height) = k) \o SortRuns(list, keys \ {k})

\* faulty variant: the list is returned in the order of arrival
SortByHeightDesc_unsorted(list) == list

\* uniqueTxs.sort((a, b) => parseInt(b.height) - parseInt(a.height))
SortByHeightDesc(list) == SortRuns(list, {parseInt(list[i].height) : i \in 1..Len(list)})

(***************************************************************************)
(* Spec: one call of fetchAllTransactions.                                 *)
(***************************************************************************)
Event(ev, p, n) == [ev |-> ev, page |-> p, n |-> n]

Ended(how, count) == [how |-> how, count |-> count]

\* deduplicateTransactions is not in use on its own
DedupIdle ==
    /\ dpc = "idle"
    /\ allTxs = <<>>
    /\ unique = <<>>
    /\ firstUnique = <<>>

\* the decoder is not in use on its own
ParseIdle ==
    /\ ppc = "idle"
    /\ raw0 = <<>>
    /\ raw = <<>>
    /\ target = <<>>
    /\ parsedBy = "none"
    /\ firstParsed = <<>>
    /\ parsed = <<>>
    /\ transfers = <<>>

\* parseAmount is not in use on its own
AmountIdle ==
    /\ apc = "idle"
    /\ amountStr = <<>>
    /\ amounts = <<>>

\* fetchViaRestAPI is not running
RestIdle ==
    /\ rpc = "idle"
    /\ restTotal = 0
    /\ restTransactions = <<>>
    /\ nextKey = <<>>
    /\ restAttempt = 0
    /\ restTrace = <<>>
    /\ restFaults = 0

\* fetchWalletTransactions is not running
WalletIdle ==
    /\ wpc = "idle"
    /\ walletTotal = <<0, 0, 0>>
    /\ wqi = 0
    /\ walletTransactions = <<>>
    /\ walletPage = 0
    /\ walletHasMore = FALSE
    /\ walletTrace = <<>>
    /\ walletFaults = 0
    /\ walletUnique = <<>>

\* generateSummary is not in use
SummaryIdle ==
    /\ spc = "idle"
    /\ sumInput = <<>>
    /\ sumAddress = <<>>
    /\ sumTransactions = <<>>
    /\ summary = <<>>
    /\ summaryBefore = <<>>

\* no single response is under study
EnvelopeIdle ==
    /\ epc = "idle"
    /\ envelope = <<>>
    /\ before = <<>>
    /\ shape = "none"

Init ==
    /\ total \in Totals[1] \X Totals[2] \X Totals[3]
    /\ pc = "fa_for"
    /\ qi = 1
    /\ allTransactions = <<>>
    /\ uniqueTxs = <<>>
    /\ transactions = <<>>
    /\ page = 0
    /\ hasMore = FALSE
    /\ totalCount = 0
    /\ attempt = 0
    /\ trace = <<>>
    /\ qEnd = [q \in Queries |-> Ended("pending", 0)]
    /\ reply = "none"
    /\ faults = 0
    /\ DedupIdle
    /\ EnvelopeIdle
    /\ AmountIdle
    /\ ParseIdle
    /\ RestIdle
    /\ WalletIdle
    /\ SummaryIdle

\* for (const query of queries) { const txs = await this.queryTxsByEvent(query)
\* queryTxsByEvent: transactions = [], page = 1, hasMore = true,
\* console.log(`Querying: ${query}`)
StartQuery ==
    /\ pc = "fa_for"
    /\ qi \in Queries
    /\ transactions' = <<>>
    /\ page' = 1
    /\ hasMore' = TRUE
    /\ totalCount' = 0
    /\ attempt' = 0
    /\ trace' = << Event("console.log:querying", 0, qi) >>
    /\ pc' = "q_while"
    /\ reply' = "none"
    /\ UNCHANGED <<total, qi, allTransactions, uniqueTxs, qEnd, faults, dvars, evars, avars, pvars, rvars, wvars, svars>>

\* while (hasMore) { ... const response = await this.fetchWithRetry(url)
\* fetchWithRetry: for (let attempt = 1; ...
EnterLoop ==
    /\ pc = "q_while"
    /\ hasMore
    /\ attempt' = 1
    /\ pc' = "f_try"
    /\ UNCHANGED <<reply, total, qi, allTransactions, uniqueTxs, transactions, page,
                   hasMore, totalCount, trace, qEnd, faults, dvars, evars, avars, pvars, rvars, wvars, svars>>

\* while (hasMore) is false: return transactions
LeaveLoop ==
    /\ pc = "q_while"
    /\ ~hasMore
    /\ pc' = "q_return"
    /\ UNCHANGED <<reply, total, qi, allTransactions, uniqueTxs, transactions, page,
                   hasMore, totalCount, attempt, trace, qEnd, faults, dvars, evars, avars, pvars, rvars, wvars, svars>>

\* faulty variant: the request of the next page is sent along with this one
SendRequest_pipelined ==
    /\ pc = "f_try"
    /\ trace' = trace \o << Event("fetch", page, attempt), Event("fetch", page + 1, 1) >>
    /\ reply' = "none"
    /\ pc' = "f_await"
    /\ UNCHANGED <<total, qi, allTransactions, uniqueTxs, transactions, page,
                   hasMore, totalCount, attempt, qEnd, faults, dvars, evars, avars, pvars, rvars, wvars, svars>>

\* const response = await fetch(url, { timeout: 10000, ... })
SendRequest ==
    /\ pc = "f_try"
    /\ trace' = Append(trace, Event("fetch", page, attempt))
    /\ reply' = "none"
    /\ pc' = "f_await"
    /\ UNCHANGED <<total, qi, allTransactions, uniqueTxs, transactions, page,
                   hasMore, totalCount, attempt, qEnd, faults, dvars, evars, avars, pvars, rvars, wvars, svars>>

\* faulty variant: the failure of a page throws the pages before it away
PageFailed_discard ==
    /\ trace' = trace \o << Event("console.error:attempt", page, attempt),
                            Event("console.error:page", page, 0) >>
    /\ hasMore' = FALSE
    /\ transactions' = <<>>
    /\ qEnd' = [qEnd EXCEPT ![qi] = Ended("retries_exhausted", 0)]
    /\ pc' = "q_while"
    /\ UNCHANGED <<page, totalCount, attempt>>

\* faulty variant: the failure of a page is not written to the console
PageFailed_silent ==
    /\ trace' = Append(trace, Event("console.error:attempt", page, attempt))
    /\ hasMore' = FALSE
    /\ qEnd' = [qEnd EXCEPT ![qi] = Ended("retries_exhausted", Len(transactions))]
    /\ pc' = "q_while"
    /\ UNCHANGED <<transactions, page, totalCount, attempt>>

\* faulty variant: the failure of a page is thrown on and nothing catches it,
\* so the call is rejected and never returns
PageFailed_rethrown ==
    /\ trace' = Append(trace, Event("console.error:attempt", page, attempt))
    /\ qEnd' = [qEnd EXCEPT ![qi] = Ended("retries_exhausted", Len(transactions))]
    /\ pc' = "rejected"
    /\ UNCHANGED <<transactions, page, hasMore, totalCount, attempt>>

\* queryTxsByEvent: catch (error) { console.error(`Failed to fetch page ...`);
\* hasMore = false }
PageFailed ==
    /\ trace' = trace \o << Event("console.error:attempt", page, attempt),
                            Event("console.error:page", page, 0) >>
    /\ hasMore' = FALSE
    /\ qEnd' = [qEnd EXCEPT ![qi] = Ended("retries_exhausted", Len(transactions))]
    /\ pc' = "q_while"
    /\ UNCHANGED <<transactions, page, totalCount, attempt>>

\* fetchWithRetry: await setTimeout(RETRY_DELAY * attempt)
Backoff ==
    /\ trace' = trace \o << Event("console.error:attempt", page, attempt),
                            Event("setTimeout", page, RetryDelayFor(attempt)) >>
    /\ pc' = "f_backoff"
    /\ UNCHANGED <<transactions, page, hasMore, totalCount, attempt, qEnd>>

\* the attempt fails: fetch rejects (network error, timeout), the status is
\* not 2xx, or the body is not JSON.  catch (error) { console.error(...);
\* if (attempt === retries) throw error; await setTimeout(...) }
AttemptFails ==
    /\ pc = "f_await"
    /\ faults < MaxFaults
    /\ faults' = faults + 1
    /\ IF LastAttempt(attempt) THEN PageFailed ELSE Backoff
    /\ reply' = "failure"
    /\ UNCHANGED <<total, qi, allTransactions, uniqueTxs, dvars, evars, avars, pvars, rvars, wvars, svars>>

\* the backoff delay has elapsed: attempt++
BackoffElapsed ==
    /\ pc = "f_backoff"
    /\ attempt' = attempt + 1
    /\ pc' = "f_try"
    /\ UNCHANGED <<reply, total, qi, allTransactions, uniqueTxs, transactions, page,
                   hasMore, totalCount, trace, qEnd, faults, dvars, evars, avars, pvars, rvars, wvars, svars>>

\* if (response.error) { console.error(`  Query error: ...`); return transactions }
ServiceErrorReturn ==
    /\ trace' = Append(trace, Event("console.error:query", page, 0))
    /\ qEnd' = [qEnd EXCEPT ![qi] = Ended("service_error", Len(transactions))]
    /\ pc' = "q_return"
    /\ UNCHANGED <<transactions, page, hasMore, totalCount, attempt>>

\* faulty variant: the records of a page are added twice
Pushed_twice(list, txs) == list \o txs \o txs

\* transactions.push(...txs)
Pushed(list, txs) == list \o txs

\* faulty variant: the delay is taken after every page that held records
RateLimitWait_always(more, p) == << Event("setTimeout", p, RATE_LIMIT_DELAY) >>

\* if (hasMore) { await setTimeout(RATE_LIMIT_DELAY) }
RateLimitWait(more, p) ==
    IF more THEN << Event("setTimeout", p, RATE_LIMIT_DELAY) >> ELSE <<>>

\* lines 407-435: the envelope is read, the page is added, hasMore and page
\* are set, and setTimeout(RATE_LIMIT_DELAY) is called if hasMore
ReadPage(response) ==
    LET txs == ExtractTxs(response)
        more == HasMoreAfter(txs)
        warn == IF IsUnexpectedFormat(response)
                THEN << Event("console.warn:format", page, 0) >> ELSE <<>>
    IN  /\ totalCount' = ExtractTotalCount(response)
        /\ IF Len(txs) = 0
           THEN /\ hasMore' = FALSE
                /\ trace' = trace \o warn
                /\ qEnd' = [qEnd EXCEPT ![qi] =
                              Ended(IF IsUnexpectedFormat(response)
                                    THEN "unexpected_format" ELSE "empty_page",
                                    Len(transactions))]
                /\ pc' = "q_while"
                /\ UNCHANGED <<transactions, page, attempt>>
           ELSE /\ transactions' = Pushed(transactions, txs)
                /\ hasMore' = more
                /\ page' = page + 1
                /\ trace' = trace \o warn
                              \o << Event("console.log:page", page, Len(txs)) >>
                              \o RateLimitWait(more, page)
                /\ qEnd' = IF more THEN qEnd
                           ELSE [qEnd EXCEPT ![qi] =
                                   Ended("short_page", Len(transactions'))]
                /\ pc' = IF more THEN "q_ratelimit" ELSE "q_while"
                /\ UNCHANGED attempt

\* fetchWithRetry returns response.json(); queryTxsByEvent reads it
HandleResponse(response) ==
    IF IsServiceError(response) THEN ServiceErrorReturn ELSE ReadPage(response)

\* the service answers 2xx with the page asked for
ReceivePage ==
    /\ pc = "f_await"
    /\ \E response \in SuccessEnvelopes(qi, page) : HandleResponse(response)
    /\ reply' = "page"
    /\ UNCHANGED <<total, qi, allTransactions, uniqueTxs, faults, dvars, evars, avars, pvars, rvars, wvars, svars>>

\* the service answers 2xx with an error object
ReceiveServiceError ==
    /\ pc = "f_await"
    /\ faults < MaxFaults
    /\ faults' = faults + 1
    /\ HandleResponse(ErrorEnvelope)
    /\ reply' = "error"
    /\ UNCHANGED <<total, qi, allTransactions, uniqueTxs, dvars, evars, avars, pvars, rvars, wvars, svars>>

\* the service answers 2xx with an object of no known shape
ReceiveUnknown ==
    /\ pc = "f_await"
    /\ faults < MaxFaults
    /\ faults' = faults + 1
    /\ HandleResponse(UnknownEnvelope)
    /\ reply' = "unknown"
    /\ UNCHANGED <<total, qi, allTransactions, uniqueTxs, dvars, evars, avars, pvars, rvars, wvars, svars>>

\* the inter-page delay has elapsed
RateLimitElapsed ==
    /\ pc = "q_ratelimit"
    /\ pc' = "q_while"
    /\ UNCHANGED <<reply, total, qi, allTransactions, uniqueTxs, transactions, page,
                   hasMore, totalCount, attempt, trace, qEnd, faults, dvars, evars, avars, pvars, rvars, wvars, svars>>

\* faulty variant: a query that failed ends the whole fetch
NextQueryIndex_abortOnFailure ==
    IF qEnd[qi].how \in {"service_error", "retries_exhausted"}
    THEN Len(getAddressQueries) + 1 ELSE qi + 1

\* the for loop goes on to the next query, however this one ended
NextQueryIndex == qi + 1

\* fetchAllTransactions: allTransactions.push(...txs), next query
CollectQuery ==
    /\ pc = "q_return"
    /\ allTransactions' = allTransactions \o transactions
    /\ qi' = NextQueryIndex
    /\ pc' = "fa_for"
    /\ reply' = "none"
    /\ UNCHANGED <<total, uniqueTxs, transactions, page, hasMore, totalCount,
                   attempt, trace, qEnd, faults, dvars, evars, avars, pvars, rvars, wvars, svars>>

\* const uniqueTxs = this.deduplicateTransactions(allTransactions);
\* uniqueTxs.sort(...); return uniqueTxs
FinishFetchAll ==
    /\ pc = "fa_for"
    /\ qi \notin Queries
    /\ uniqueTxs' = SortByHeightDesc(deduplicateTransactions(allTransactions))
    /\ pc' = "done"
    /\ UNCHANGED <<reply, total, qi, allTransactions, transactions, page, hasMore,
                   totalCount, attempt, trace, qEnd, faults, dvars, evars, avars, pvars, rvars, wvars, svars>>

Next ==
    \/ StartQuery
    \/ EnterLoop
    \/ LeaveLoop
    \/ SendRequest
    \/ AttemptFails
    \/ BackoffElapsed
    \/ ReceivePage
    \/ ReceiveServiceError
    \/ ReceiveUnknown
    \/ RateLimitElapsed
    \/ CollectQuery
    \/ FinishFetchAll

Spec == Init /\ [][Next]_vars

\* the positions of the thread of control inside the call
Positions ==
    {"fa_for", "q_while", "f_try", "f_await", "f_backoff", "q_ratelimit", "q_return"}

\* the thread of control moves on from its position (every action of Next
\* does, and at every position some action of Next is enabled)
Continue == pc \in Positions /\ pc' \in (Positions \cup {"done"}) \ {pc}

\* The call is one async function: each step is the continuation of an
\* awaited promise.  The event loop runs the continuation once the promise
\* settles, every timer of setTimeout fires, and every request is answered
\* or fails (a page, an error object, an unknown object, a network failure
\* or the timeout), so the thread of control does not stay at a position
\* for ever.
SpecLive == Init /\ [][Next]_vars /\ WF_pc(Continue)

(***************************************************************************)
(* SpecDedup: the inputs are all lists of at most MaxLen records over a    *)
(* small universe with colliding, absent and empty hashes.                 *)
(***************************************************************************)
DedupRecords ==
    { RawRecord(h, t, <<7>>, x) :
        h \in {Undefined, "", "H1", "H2"}, t \in {Undefined, "H1"}, x \in {1, 2} }

RECURSIVE ListsUpTo(_, _)
ListsUpTo(S, n) ==
    IF n = 0 THEN {<<>>}
    ELSE LET shorter == ListsUpTo(S, n - 1)
         IN  shorter \cup {Append(l, r) : l \in {s \in shorter : Len(s) = n - 1}, r \in S}

\* fetchAllTransactions is not running
FetchIdle ==
    /\ total = <<0, 0, 0>>
    /\ pc = "idle"
    /\ qi = 0
    /\ allTransactions = <<>>
    /\ uniqueTxs = <<>>
    /\ transactions = <<>>
    /\ page = 0
    /\ hasMore = FALSE
    /\ totalCount = 0
    /\ attempt = 0
    /\ trace = <<>>
    /\ qEnd = [q \in Queries |-> Ended("pending", 0)]
    /\ reply = "none"
    /\ faults = 0

InitDedup ==
    /\ dpc = "input"
    /\ allTxs \in ListsUpTo(DedupRecords, MaxLen)
    /\ unique = <<>>
    /\ firstUnique = <<>>
    /\ FetchIdle
    /\ EnvelopeIdle
    /\ AmountIdle
    /\ ParseIdle
    /\ RestIdle
    /\ WalletIdle
    /\ SummaryIdle

\* const unique = fetcher.deduplicateTransactions(allTxs)
Deduplicate ==
    /\ dpc = "input"
    /\ unique' = deduplicateTransactions(allTxs)
    /\ firstUnique' = unique'
    /\ dpc' = "deduped"
    /\ UNCHANGED <<allTxs, fvars, evars, avars, pvars, rvars, wvars, svars>>

\* the result is deduplicated once more
DeduplicateAgain ==
    /\ dpc = "deduped"
    /\ allTxs' = unique
    /\ unique' = deduplicateTransactions(unique)
    /\ dpc' = "rededuped"
    /\ UNCHANGED <<firstUnique, fvars, evars, avars, pvars, rvars, wvars, svars>>

\* the same list is merged into the working list a second time
\* (allTxs.push(...txs) twice) and the whole is deduplicated
MergeTwiceAndDeduplicate ==
    /\ dpc = "deduped"
    /\ allTxs' = allTxs \o allTxs
    /\ unique' = deduplicateTransactions(allTxs')
    /\ dpc' = "remerged"
    /\ UNCHANGED <<firstUnique, fvars, evars, avars, pvars, rvars, wvars, svars>>

NextDedup == Deduplicate \/ DeduplicateAgain \/ MergeTwiceAndDeduplicate

SpecDedup == InitDedup /\ [][NextDedup]_vars

(***************************************************************************)
(* SpecEnvelope: queryTxsByEvent has requested page 1 or 2 of query 1 and  *)
(* the answer arrives.  The answer holds a list of records and a total     *)
(* count, either of which may be missing, and comes in the wrapped form    *)
(* {result: {txs, total_count}} or the unwrapped form {txs, total_count}.  *)
(***************************************************************************)
EnvelopeSizes == {0, 1, 2, 50, 99, 100, 101}
EnvelopeCounts == {0, 200, 250}

\* the object with the fields of inner named in keys
Fields(txs, n, keys) == [k \in keys |-> IF k = "txs" THEN txs ELSE n]

InitEnvelope ==
    /\ \E p \in {1, 2} :
          /\ before = [transactions |-> Prefix(Ledger[1], (p - 1) * PAGE_SIZE), page |-> p]
          /\ \E n \in EnvelopeSizes, c \in EnvelopeCounts,
                keys \in SUBSET {"txs", "total_count"} :
                envelope = Fields(SubSeq(Ledger[1], (p - 1) * PAGE_SIZE + 1,
                                         (p - 1) * PAGE_SIZE + n), c, keys)
    /\ epc = "input"
    /\ shape = "none"
    /\ total = <<MaxTotal[1], 0, 0>>
    /\ pc = "f_await"
    /\ qi = 1
    /\ allTransactions = <<>>
    /\ uniqueTxs = <<>>
    /\ transactions = before.transactions
    /\ page = before.page
    /\ hasMore = TRUE
    /\ totalCount = 0
    /\ attempt = 1
    /\ trace = << Event("fetch", before.page, 1) >>
    /\ qEnd = [q \in Queries |-> Ended("pending", 0)]
    /\ reply = "none"
    /\ faults = 0
    /\ DedupIdle
    /\ AmountIdle
    /\ ParseIdle
    /\ RestIdle
    /\ WalletIdle
    /\ SummaryIdle

\* the answer arrives as {result: {...}} and queryTxsByEvent reads it
ReadWrapped ==
    /\ epc = "input"
    /\ HandleResponse([result |-> envelope])
    /\ shape' = "wrapped"
    /\ epc' = "read"
    /\ reply' = "page"
    /\ UNCHANGED <<envelope, before, total, qi, allTransactions, uniqueTxs, faults,
                   dvars, avars, pvars, rvars, wvars, svars>>

\* the answer arrives without the result wrapper and queryTxsByEvent reads it
ReadUnwrapped ==
    /\ epc = "input"
    /\ HandleResponse(envelope)
    /\ shape' = "unwrapped"
    /\ epc' = "read"
    /\ reply' = "page"
    /\ UNCHANGED <<envelope, before, total, qi, allTransactions, uniqueTxs, faults,
                   dvars, avars, pvars, rvars, wvars, svars>>

NextEnvelope == ReadWrapped \/ ReadUnwrapped

SpecEnvelope == InitEnvelope /\ [][NextEnvelope]_vars

(***************************************************************************)
(* JavaScript values of the decoder.  A value carries its type; a string   *)
(* is the sequence of its characters, an array a sequence, an object a     *)
(* function from its keys (an absent key reads as undefined).  TypeError   *)
(* is the outcome of an operation that throws.                             *)
(*                                                                         *)
(* A character is written as the one-character TLA+ string, and as         *)
(* "U+<code>" where TLA+ has no such string (the grave accent, control     *)
(* characters, and U+FFFD, the replacement character).                     *)
(***************************************************************************)
\* the characters of a literal
Str(lit) == [i \in 1..Len(lit) |-> SubSeq(lit, i, i)]

JUndefined == [type |-> "undefined"]
JNull == [type |-> "null"]
JChars(str) == [type |-> "string", str |-> str]
JStr(lit) == JChars(Str(lit))
JNum(num) == [type |-> "number", num |-> num]
JArr(items) == [type |-> "array", items |-> items]
JObj(fields) == [type |-> "object", fields |-> fields]
JBool(bool) == [type |-> "boolean", bool |-> bool]
TypeError == [type |-> "TypeError"]

IsStr(v) == v.type = "string"
IsArr(v) == v.type = "array"
IsObj(v) == v.type = "object"
Nullish(v) == v.type \in {"undefined", "null"}

\* ToBoolean
JTruthy(v) ==
    CASE v.type \in {"undefined", "null"} -> FALSE
      [] v.type = "string" -> v.str # <<>>
      [] v.type = "number" -> v.num # 0
      [] v.type = "boolean" -> v.bool
      [] OTHER -> TRUE

\* a || b
JOr(a, b) == IF JTruthy(a) THEN a ELSE b

\* v.k for a v that is neither undefined nor null (the model's strings,
\* numbers and arrays have no property the decoder reads)
JGet(v, k) ==
    IF IsObj(v) /\ k \in DOMAIN v.fields THEN v.fields[k] ELSE JUndefined

\* v?.k
JGetOpt(v, k) == IF Nullish(v) THEN JUndefined ELSE JGet(v, k)

\* a coin: {amount, denom}
Coin(amount, denom) == JObj([amount |-> JStr(amount), denom |-> JStr(denom)])

\* the characters of a string
CharAt(str, i) == str[i]
Chars(str) == {str[i] : i \in 1..Len(str)}

IsDigit(c) == c \in {"0", "1", "2", "3", "4", "5", "6", "7", "8", "9"}

\* what \s matches and trim() removes, of the characters in use
IsWhiteSpace(c) == c \in {" ", "\t", "\n", "\r", "\f"}

\* what . does not match
IsLineTerminator(c) == c \in {"\n", "\r"}

(***************************************************************************)
(* Buffer.from(str, 'base64').toString(): the base64 decoder of Node.js    *)
(* skips every character outside the base64 alphabets and stops at the     *)
(* first '='; toString() decodes the bytes as UTF-8 and puts U+FFFD where  *)
(* they are not UTF-8.                                                     *)
(***************************************************************************)
Base64Chars == Str("ABCDEFGHIJKLMNOPQRSTUVWXYZabcdefghijklmnopqrstuvwxyz0123456789+/")

IsBase64Char(c) == c \in Range(Base64Chars) \cup {"-", "_"}

Base64Value(c) ==
    IF c = "-" THEN 62
    ELSE IF c = "_" THEN 63
    ELSE (CHOOSE i \in 1..Len(Base64Chars) : Base64Chars[i] = c) - 1

\* the six-bit values of the characters decoded
Sextets(str) ==
    LET stops == {i \in 1..Len(str) : str[i] = "="}
        end == IF stops = {} THEN Len(str)
               ELSE (CHOOSE i \in stops : \A j \in stops : i <= j) - 1
        legal == SelectSeq(SubSeq(str, 1, end), IsBase64Char)
    IN  [i \in 1..Len(legal) |-> Base64Value(legal[i])]

\* four characters give three bytes, three give two, two give one
BytesOf(six) ==
    [j \in 1..((Len(six) * 6) \div 8) |->
        LET s == 4 * ((j - 1) \div 3)
        IN  CASE (j - 1) % 3 = 0 -> six[s + 1] * 4 + six[s + 2] \div 16
              [] (j - 1) % 3 = 1 -> (six[s + 2] % 16) * 16 + six[s + 3] \div 4
              [] OTHER -> (six[s + 3] % 4) * 64 + six[s + 4]]

\* the characters with the codes 32..95 and 97..126
AsciiLow == Str(" !\"#$%&'()*+,-./0123456789:;<=>?@ABCDEFGHIJKLMNOPQRSTUVWXYZ[\\]^_")
AsciiHigh == Str("abcdefghijklmnopqrstuvwxyz{|}~")

ReplacementChar == "U+65533"

CharOfCode(code) ==
    IF code \in 32..95 THEN AsciiLow[code - 31]
    ELSE IF code \in 97..126 THEN AsciiHigh[code - 96]
    ELSE IF code = 9 THEN "\t"
    ELSE IF code = 10 THEN "\n"
    ELSE IF code = 12 THEN "\f"
    ELSE IF code = 13 THEN "\r"
    ELSE "U+" \o ToString(code)

IsContinuation(b) == b \in 128..191

\* the bytes a UTF-8 lead byte may be followed by: how many, and the range
\* of the first of them
Utf8Follow(b) ==
    IF b \in 194..223 THEN [n |-> 1, lo |-> 128, hi |-> 191]
    ELSE IF b = 224 THEN [n |-> 2, lo |-> 160, hi |-> 191]
    ELSE IF b = 237 THEN [n |-> 2, lo |-> 128, hi |-> 159]
    ELSE IF b \in 225..239 THEN [n |-> 2, lo |-> 128, hi |-> 191]
    ELSE IF b = 240 THEN [n |-> 3, lo |-> 144, hi |-> 191]
    ELSE IF b = 244 THEN [n |-> 3, lo |-> 128, hi |-> 143]
    ELSE IF b \in 241..243 THEN [n |-> 3, lo |-> 128, hi |-> 191]
    ELSE [n |-> 0, lo |-> 0, hi |-> 0]

\* the value bits of a lead byte
Utf8LeadBits(b) ==
    IF b \in 194..223 THEN b - 192 ELSE IF b \in 224..239 THEN b - 224 ELSE b - 240

RECURSIVE Utf8Code(_, _)
Utf8Code(acc, rest) ==
    IF rest = <<>> THEN acc ELSE Utf8Code(acc * 64 + (rest[1] - 128), Tail(rest))

\* the sequences of a list of sequences, one after the other
RECURSIVE Concat(_, _, _)
Concat(seqs, lo, hi) ==
    IF lo > hi THEN <<>>
    ELSE IF lo = hi THEN seqs[lo]
    ELSE LET mid == (lo + hi) \div 2
             left == Concat(seqs, lo, mid)
         IN  IF Len(left) = 0 THEN Concat(seqs, mid + 1, hi)
             ELSE left \o Concat(seqs, mid + 1, hi)

\* TextDecoder, on bytes of 128 and more: a well-formed sequence gives its
\* character, a byte that begins none, or a sequence cut short, gives one
\* U+FFFD
RECURSIVE Utf8DecodeRun(_)
Utf8DecodeRun(bytes) ==
    IF bytes = <<>> THEN <<>>
    ELSE LET b == bytes[1]
             f == Utf8Follow(b)
         IN  IF f.n = 0 THEN << ReplacementChar >> \o Utf8DecodeRun(Tail(bytes))
             ELSE LET good == {k \in 0..f.n :
                                 /\ k + 1 <= Len(bytes)
                                 /\ \A j \in 1..k :
                                       IF j = 1 THEN bytes[2] \in f.lo..f.hi
                                       ELSE IsContinuation(bytes[j + 1])}
                      m == CHOOSE k \in good : \A j \in good : j <= k
                  IN  IF m = f.n
                      THEN << CharOfCode(Utf8Code(Utf8LeadBits(b), SubSeq(bytes, 2, m + 1))) >>
                              \o Utf8DecodeRun(SubSeq(bytes, m + 2, Len(bytes)))
                      ELSE << ReplacementChar >>
                              \o Utf8DecodeRun(SubSeq(bytes, m + 2, Len(bytes)))

\* Buffer.prototype.toString(): a byte below 128 is its ASCII character and
\* ends what came before it; the runs of other bytes are decoded each on
\* its own
Utf8Decode(bytes) ==
    LET ascii(i) == bytes[i] < 128
        runEnd(i) == LET stops == {j \in i..Len(bytes) : ascii(j)}
                     IN  IF stops = {} THEN Len(bytes)
                         ELSE (CHOOSE j \in stops : \A k \in stops : j <= k) - 1
        piece(i) == IF ascii(i) THEN << CharOfCode(bytes[i]) >>
                    ELSE IF i > 1 /\ ~ascii(i - 1) THEN <<>>
                    ELSE Utf8DecodeRun(SubSeq(bytes, i, runEnd(i)))
    IN  Concat([i \in 1..Len(bytes) |-> piece(i)], 1, Len(bytes))

\* Buffer.from(str, 'base64').toString()
Base64ToString(str) == Utf8Decode(BytesOf(Sextets(str)))

\* decodedKey.match(/^[\x20-\x7E]+$/)
IsPrintableAscii(str) ==
    /\ str # <<>>
    /\ \A i \in 1..Len(str) : str[i] \in Range(AsciiLow) \cup Range(AsciiHigh) \cup {"U+96"}

(***************************************************************************)
(* JSON.parse, for texts without string escapes, fractions and exponents.  *)
(* A parse step at place i gives ok, the value read and the place after    *)
(* it; SyntaxError is the outcome of a text that is not JSON.              *)
(***************************************************************************)
SyntaxError == [type |-> "SyntaxError"]

NoParse == [ok |-> FALSE, val |-> JUndefined, next |-> 0]

IsJsonSpace(c) == c \in {" ", "\t", "\n", "\r"}

\* the first place from i on that holds no white space
SkipWs(text, i) ==
    LET solid == {j \in i..Len(text) : ~IsJsonSpace(text[j])}
    IN  IF solid = {} THEN Len(text) + 1 ELSE CHOOSE j \in solid : \A k \in solid : j <= k

\* the TLA+ string with the characters of a key
RECURSIVE KeyOf(_)
KeyOf(str) == IF str = <<>> THEN "" ELSE str[1] \o KeyOf(Tail(str))

DigitValue(c) == (CHOOSE i \in 1..10 : Str("0123456789")[i] = c) - 1

RECURSIVE NumberOf(_)
NumberOf(digits) ==
    IF digits = <<>> THEN 0
    ELSE 10 * NumberOf(SubSeq(digits, 1, Len(digits) - 1)) + DigitValue(digits[Len(digits)])

StartsWith(text, i, lit) ==
    i + Len(lit) - 1 <= Len(text) /\ SubSeq(text, i, i + Len(lit) - 1) = Str(lit)

\* a string: from the quote at i to the next quote
ParseString(text, i) ==
    LET quotes == {j \in (i + 1)..Len(text) : text[j] = "\""}
    IN  IF quotes = {} THEN NoParse
        ELSE LET j == CHOOSE q \in quotes : \A k \in quotes : q <= k
             IN  IF \E k \in (i + 1)..(j - 1) : text[k] \in {"\\", "\t", "\n", "\r", "\f"}
                 THEN NoParse
                 ELSE [ok |-> TRUE, val |-> JChars(SubSeq(text, i + 1, j - 1)), next |-> j + 1]

\* an integer: the digits from i on, with no leading zero
ParseNumber(text, i) ==
    LET others == {j \in i..Len(text) : ~IsDigit(text[j])}
        end == IF others = {} THEN Len(text)
               ELSE (CHOOSE j \in others : \A k \in others : j <= k) - 1
    IN  IF end < i \/ (text[i] = "0" /\ end > i) THEN NoParse
        ELSE IF end < Len(text) /\ text[end + 1] \in {".", "e", "E"} THEN NoParse
        ELSE [ok |-> TRUE, val |-> JNum(NumberOf(SubSeq(text, i, end))), next |-> end + 1]

RECURSIVE ParseValue(_, _), ParseElements(_, _, _), ParseMembers(_, _, _)

\* a value at place i
ParseValue(text, i) ==
    IF i > Len(text) THEN NoParse
    ELSE IF text[i] = "\"" THEN ParseString(text, i)
    ELSE IF IsDigit(text[i]) THEN ParseNumber(text, i)
    ELSE IF text[i] = "-" THEN
        LET r == ParseNumber(text, i + 1)
        IN  IF r.ok THEN [r EXCEPT !.val = JNum(0 - r.val.num)] ELSE NoParse
    ELSE IF StartsWith(text, i, "null") THEN [ok |-> TRUE, val |-> JNull, next |-> i + 4]
    ELSE IF StartsWith(text, i, "true") THEN [ok |-> TRUE, val |-> JBool(TRUE), next |-> i + 4]
    ELSE IF StartsWith(text, i, "false") THEN [ok |-> TRUE, val |-> JBool(FALSE), next |-> i + 5]
    ELSE IF text[i] = "[" THEN
        LET j == SkipWs(text, i + 1)
        IN  IF j <= Len(text) /\ text[j] = "]"
            THEN [ok |-> TRUE, val |-> JArr(<<>>), next |-> j + 1]
            ELSE ParseElements(text, j, <<>>)
    ELSE IF text[i] = "{" THEN
        LET j == SkipWs(text, i + 1)
        IN  IF j <= Len(text) /\ text[j] = "}"
            THEN [ok |-> TRUE, val |-> JObj(<<>>), next |-> j + 1]
            ELSE ParseMembers(text, j, <<>>)
    ELSE NoParse

\* the elements of an array from place i on; items are those read so far
ParseElements(text, i, items) ==
    LET r == ParseValue(text, i)
        j == SkipWs(text, r.next)
    IN  IF ~r.ok \/ j > Len(text) THEN NoParse
        ELSE IF text[j] = "]"
             THEN [ok |-> TRUE, val |-> JArr(Append(items, r.val)), next |-> j + 1]
        ELSE IF text[j] = ","
             THEN ParseElements(text, SkipWs(text, j + 1), Append(items, r.val))
        ELSE NoParse

\* the members of an object from place i on; a key read twice keeps its
\* last value
ParseMembers(text, i, fields) ==
    IF i > Len(text) \/ text[i] # "\"" THEN NoParse
    ELSE LET k == ParseString(text, i)
             c == SkipWs(text, k.next)
         IN  IF ~k.ok \/ c > Len(text) \/ text[c] # ":" THEN NoParse
             ELSE LET r == ParseValue(text, SkipWs(text, c + 1))
                      j == SkipWs(text, r.next)
                      more == (KeyOf(k.val.str) :> r.val) @@ fields
                  IN  IF ~r.ok \/ j > Len(text) THEN NoParse
                      ELSE IF text[j] = "}"
                           THEN [ok |-> TRUE, val |-> JObj(more), next |-> j + 1]
                      ELSE IF text[j] = ","
                           THEN ParseMembers(text, SkipWs(text, j + 1), more)
                      ELSE NoParse

\* the value read, if nothing but white space follows it
WholeText(text, r) ==
    IF r.ok /\ SkipWs(text, r.next) > Len(text) THEN r.val ELSE SyntaxError

\* JSON.parse(text)
JSONParse(text) == WholeText(text, ParseValue(text, SkipWs(text, 1)))

(***************************************************************************)
(* parseAmount (src/README.md lines 756-774).                              *)
(***************************************************************************)
\* String.prototype.split(',')
RECURSIVE SplitComma(_)
SplitComma(str) ==
    LET commas == {i \in 1..Len(str) : CharAt(str, i) = ","}
    IN  IF commas = {} THEN << str >>
        ELSE LET i == CHOOSE c \in commas : \A d \in commas : c <= d
             IN  << SubSeq(str, 1, i - 1) >> \o SplitComma(SubSeq(str, i + 1, Len(str)))

\* String.prototype.trim()
Trim(str) ==
    LET solid == {i \in 1..Len(str) : ~IsWhiteSpace(CharAt(str, i))}
    IN  IF solid = {} THEN <<>>
        ELSE SubSeq(str, CHOOSE a \in solid : \A b \in solid : a <= b,
                         CHOOSE a \in solid : \A b \in solid : b <= a)

\* amount.match(/^(\d+)(.+)$/): the places where the string can be cut into
\* one or more digits and one or more characters that . matches
AmountCuts(str) ==
    {k \in 1..(Len(str) - 1) :
        /\ \A i \in 1..k : IsDigit(CharAt(str, i))
        /\ \A i \in (k + 1)..Len(str) : ~IsLineTerminator(CharAt(str, i))}

\* faulty variant: \d+ takes the shortest run of digits
MatchAmount_lazy(str) ==
    IF AmountCuts(str) = {} THEN JChars(str)
    ELSE LET k == CHOOSE c \in AmountCuts(str) : \A d \in AmountCuts(str) : c <= d
         IN  JObj([amount |-> JChars(SubSeq(str, 1, k)),
                   denom |-> JChars(SubSeq(str, k + 1, Len(str)))])

\* the map callback: \d+ is greedy, so the cut is the last one possible;
\* a string that does not match is returned as it is
MatchAmount(str) ==
    IF AmountCuts(str) = {} THEN JChars(str)
    ELSE LET k == CHOOSE c \in AmountCuts(str) : \A d \in AmountCuts(str) : d <= c
         IN  JObj([amount |-> JChars(SubSeq(str, 1, k)),
                   denom |-> JChars(SubSeq(str, k + 1, Len(str)))])

\* parseAmount(amountStr); a truthy value that is neither an array nor a
\* string has no split method
parseAmount(v) ==
    IF ~JTruthy(v) THEN JArr(<<>>)
    ELSE IF IsArr(v) THEN v
    ELSE IF ~IsStr(v) THEN TypeError
    ELSE LET parts == SplitComma(v.str)
         IN  JArr([i \in 1..Len(parts) |-> MatchAmount(Trim(parts[i]))])

(***************************************************************************)
(* parseTransaction (src/README.md lines 519-607, and the two other        *)
(* fetchers of src/fetchWithREST.js).  A raw record is an object; the      *)
(* decoder reads it and assigns to the attributes of its event objects,    *)
(* so a call gives the value returned, or TypeError, and the raw record as *)
(* the call leaves it.                                                     *)
(***************************************************************************)
\* a === b, for a string, number, boolean, null or undefined on one side
\* (two objects are equal only if they are the same object)
JStrictEq(a, b) == a.type \notin {"object", "array"} /\ a = b

\* the first of keys that v holds a truthy value for, "" if there is none
RECURSIVE FirstTruthyKey(_, _)
FirstTruthyKey(v, keys) ==
    IF keys = <<>> THEN ""
    ELSE IF JTruthy(JGet(v, keys[1])) THEN keys[1]
    ELSE FirstTruthyKey(v, Tail(keys))

\* const result = tx.tx_result || tx.result || tx.TxResult || {}
\* (FixedRPCTransactionFetcher: tx.tx_result || tx.result || {})
ResultKeys(fetcher) ==
    IF fetcher = "TransactionFetcher" THEN << "tx_result", "result", "TxResult" >>
    ELSE << "tx_result", "result" >>

ResultKey(fetcher, tx) == FirstTruthyKey(tx, ResultKeys(fetcher))

ResultOf(fetcher, tx) ==
    IF ResultKey(fetcher, tx) = "" THEN JObj(<<>>) ELSE JGet(tx, ResultKey(fetcher, tx))

\* the catch of lines 545-547: txData stays the payload if JSON.parse throws
ParsedOr(json, payload) == IF json = SyntaxError THEN payload ELSE json

\* lines 536-548: a string payload is base64-decoded and parsed as JSON,
\* and kept as it is if that fails
TxData(payload) ==
    IF IsStr(payload) THEN ParsedOr(JSONParse(Base64ToString(payload.str)), payload)
    ELSE payload

\* lines 550-553: messages, memo and fee of txData; reading a property of a
\* txData that is null throws inside the try and leaves the three as they
\* were
MessagesMemoFee(payload, txData) ==
    LET body == JGet(txData, "body")
        auth == JGet(txData, "auth_info")
    IN  IF ~JTruthy(payload) \/ Nullish(txData)
        THEN [messages |-> JArr(<<>>), memo |-> JNull, fee |-> JNull]
        ELSE [messages |-> JOr(JOr(JGetOpt(body, "messages"), JGet(txData, "msg")), JArr(<<>>)),
              memo |-> JOr(JOr(JGetOpt(body, "memo"), JGet(txData, "memo")), JStr("")),
              fee |-> JOr(JOr(JGetOpt(auth, "fee"), JGet(txData, "fee")), JNull)]

\* lines 533-557
ReadTxData(tx) == MessagesMemoFee(JGet(tx, "tx"), TxData(JGet(tx, "tx")))

\* FixedRPCTransactionFetcher, lines 583-587 of src/fetchWithREST.js
FixedRPC_MessagesMemoFee(payload, txData) ==
    LET body == JGet(txData, "body")
        fee == JGetOpt(JGet(txData, "auth_info"), "fee")
    IN  IF ~JTruthy(payload) \/ Nullish(txData)
        THEN [messages |-> JArr(<<>>), memo |-> JNull, fee |-> JNull]
        ELSE [messages |-> IF JTruthy(body) THEN JOr(JGet(body, "messages"), JArr(<<>>))
                           ELSE JArr(<<>>),
              memo |-> IF JTruthy(body) THEN JOr(JGet(body, "memo"), JStr("")) ELSE JNull,
              fee |-> IF JTruthy(fee) THEN fee ELSE JNull]

\* FixedRPCTransactionFetcher, lines 569-591 of src/fetchWithREST.js
FixedRPC_ReadTxData(tx) == FixedRPC_MessagesMemoFee(JGet(tx, "tx"), TxData(JGet(tx, "tx")))

\* Buffer.from(value, 'base64').toString() for a truthy value: a string is
\* decoded, an array gives its elements as bytes, any other value throws
BufferToString(value) ==
    IF IsStr(value) THEN JChars(Base64ToString(value.str))
    ELSE IF IsArr(value)
    THEN JChars(Utf8Decode([i \in 1..Len(value.items) |->
                               IF value.items[i].type = "number"
                               THEN value.items[i].num % 256 ELSE 0]))
    ELSE TypeError

\* faulty variant: the decoded key is not tested
Decoded_untested(attr, decodedKey, decodedValue) ==
    IF decodedValue = TypeError THEN attr
    ELSE JObj([key |-> JChars(decodedKey),
               value |-> decodedValue,
               index |-> JGet(attr, "index")])

\* lines 578-585: the attribute is replaced only if the decoded key is
\* printable ASCII; a throw of Buffer.from is caught and the entry kept
Decoded(attr, decodedKey, decodedValue) ==
    IF decodedValue = TypeError THEN attr
    ELSE IF IsPrintableAscii(decodedKey)
    THEN JObj([key |-> JChars(decodedKey),
               value |-> decodedValue,
               index |-> JGet(attr, "index")])
    ELSE attr

\* lines 570-589, the callback of event.attributes.map: attr.key of a null
\* entry throws; a key that is no string has no includes method, which is
\* caught
DecodeAttribute(attr) ==
    IF Nullish(attr) THEN TypeError
    ELSE LET key == JGet(attr, "key")
             value == JGet(attr, "value")
         IN  IF JTruthy(key) /\ IsStr(key) /\ " " \notin Chars(key.str)
             THEN Decoded(attr, Base64ToString(key.str),
                          IF JTruthy(value) THEN BufferToString(value) ELSE JStr(""))
             ELSE attr

\* event.attributes = event.attributes.map(...): the event with the mapped
\* attributes, unless the callback threw
Assigned(event, mapped) ==
    IF \E i \in 1..Len(mapped) : mapped[i] = TypeError THEN TypeError
    ELSE JObj([event.fields EXCEPT !["attributes"] = JArr(mapped)])

\* lines 568-592, the callback of parsed.events.map: the event object as
\* the callback leaves it; event.attributes of a null entry throws
DecodeEvent(event) ==
    IF Nullish(event) THEN TypeError
    ELSE LET attrs == JGet(event, "attributes")
         IN  IF JTruthy(attrs) /\ IsArr(attrs) /\ IsObj(event)
             THEN Assigned(event, [i \in 1..Len(attrs.items) |->
                                      DecodeAttribute(attrs.items[i])])
             ELSE event

\* the callback runs on the entries in order; the event objects before one
\* that throws have been assigned to
Mapped(events, mapped) ==
    LET bad == {i \in 1..Len(mapped) : mapped[i] = TypeError}
        stop == IF bad = {} THEN Len(mapped) + 1
                ELSE CHOOSE i \in bad : \A j \in bad : i <= j
    IN  [threw |-> bad # {},
         items |-> [i \in 1..Len(mapped) |->
                       IF i < stop THEN mapped[i] ELSE events.items[i]]]

\* parsed.events.map(...): a value that is no array has no map method
DecodeEvents(events) ==
    IF ~IsArr(events) THEN [threw |-> TRUE, items |-> <<>>]
    ELSE Mapped(events, [i \in 1..Len(events.items) |-> DecodeEvent(events.items[i])])

\* the raw record after the map: the event objects assigned to are those
\* of the events array of its result object
WithEvents(fetcher, tx, items) ==
    LET key == ResultKey(fetcher, tx)
    IN  IF key # "" /\ IsObj(ResultOf(fetcher, tx))
             /\ IsArr(JGet(ResultOf(fetcher, tx), "events"))
        THEN JObj([tx.fields EXCEPT ![key] =
                      JObj([@.fields EXCEPT !["events"] = JArr(items)])])
        ELSE tx

\* lines 595-604: the value of the timestamp attribute of the last event of
\* type tx that has one; attributes that are no array have no find method
RECURSIVE FindTimestamp(_, _)
FindTimestamp(items, timestamp) ==
    IF items = <<>> THEN timestamp
    ELSE LET event == items[1]
             attrs == JGet(event, "attributes")
         IN  IF JStrictEq(JGet(event, "type"), JStr("tx")) /\ JTruthy(attrs)
             THEN IF ~IsArr(attrs) THEN TypeError
                  ELSE LET hits == {i \in 1..Len(attrs.items) :
                                      JStrictEq(JGet(attrs.items[i], "key"), JStr("timestamp"))}
                       IN  IF hits = {} THEN FindTimestamp(Tail(items), timestamp)
                           ELSE FindTimestamp(Tail(items),
                                    JGet(attrs.items[CHOOSE i \in hits : \A j \in hits : i <= j],
                                         "value"))
             ELSE FindTimestamp(Tail(items), timestamp)

\* faulty variant: success is read from the record
SuccessOf_fromRecord(code, tx) == ~JTruthy(JGet(tx, "failed"))

\* parsed.success = parsed.code === 0
SuccessOf(code, tx) == code = JNum(0)

\* the call: returned is the value returned or TypeError, tx the raw record
\* after the call
Returned(value, tx) == [returned |-> value, tx |-> tx]

\* const events = result.events || [], const code = result.code || 0
EventsOf(fetcher, tx) == JOr(JGet(ResultOf(fetcher, tx), "events"), JArr(<<>>))
CodeOf(fetcher, tx) == JOr(JGet(ResultOf(fetcher, tx), "code"), JNum(0))

\* lines 595-604; FixedRPCTransactionFetcher does not look for a timestamp
TimestampOf(fetcher, items) ==
    IF fetcher = "TransactionFetcher" THEN FindTimestamp(items, JNull) ELSE JNull

\* the object returned, lines 520-531 with the fields assigned later
ParsedRecord(tx, data, code, decoded, timestamp, after) ==
    IF decoded.threw \/ timestamp = TypeError THEN Returned(TypeError, after)
    ELSE Returned([hash |-> JOr(JGet(tx, "hash"), JGet(tx, "txhash")),
                   height |-> JGet(tx, "height"),
                   timestamp |-> timestamp,
                   messages |-> data.messages,
                   events |-> JArr(decoded.items),
                   fee |-> data.fee,
                   memo |-> data.memo,
                   success |-> SuccessOf(code, tx),
                   code |-> code], after)

WithDecoded(fetcher, tx, data, decoded) ==
    ParsedRecord(tx, data, CodeOf(fetcher, tx), decoded,
                 TimestampOf(fetcher, decoded.items),
                 WithEvents(fetcher, tx, decoded.items))

\* TransactionFetcher.parseTransaction(tx) and
\* FixedRPCTransactionFetcher.parseTransaction(tx)
parseTransaction(fetcher, tx) ==
    WithDecoded(fetcher, tx,
                IF fetcher = "TransactionFetcher" THEN ReadTxData(tx)
                ELSE FixedRPC_ReadTxData(tx),
                DecodeEvents(EventsOf(fetcher, tx)))

\* RESTTransactionFetcher.parseTransaction(tx), lines 45-73 of
\* src/fetchWithREST.js; it assigns to nothing of the raw record
REST_parseTransaction(tx) ==
    LET code == JOr(JGet(tx, "code"), JNum(0))
        payload == JGet(tx, "tx")
        body == IF JTruthy(payload) THEN JGet(payload, "body") ELSE JUndefined
        auth == IF JTruthy(payload) THEN JGet(payload, "auth_info") ELSE JUndefined
        fee == IF JTruthy(auth) THEN JGet(auth, "fee") ELSE JUndefined
    IN  Returned([hash |-> JOr(JGet(tx, "txhash"), JGet(tx, "hash")),
                  height |-> JGet(tx, "height"),
                  timestamp |-> JGet(tx, "timestamp"),
                  code |-> code,
                  success |-> SuccessOf(code, tx),
                  gas_used |-> JGet(tx, "gas_used"),
                  gas_wanted |-> JGet(tx, "gas_wanted"),
                  fee |-> IF JTruthy(fee) THEN fee ELSE JNull,
                  memo |-> IF JTruthy(body) THEN JOr(JGet(body, "memo"), JStr("")) ELSE JStr(""),
                  messages |-> IF JTruthy(body) THEN JOr(JGet(body, "messages"), JArr(<<>>))
                               ELSE JArr(<<>>),
                  events |-> JOr(JGet(tx, "events"), JArr(<<>>)),
                  logs |-> JOr(JGet(tx, "logs"), JArr(<<>>))], tx)

(***************************************************************************)
(* JSON.stringify.  The members of an object are written in one fixed      *)
(* order of its keys, so two objects with the same keys and values give    *)
(* the same text (JavaScript writes them in the order of insertion).       *)
(***************************************************************************)
EscapeChar(c) ==
    IF c = "\"" THEN << "\\", "\"" >>
    ELSE IF c = "\\" THEN << "\\", "\\" >>
    ELSE IF c = "\n" THEN << "\\", "n" >>
    ELSE IF c = "\r" THEN << "\\", "r" >>
    ELSE IF c = "\t" THEN << "\\", "t" >>
    ELSE IF c = "\f" THEN << "\\", "f" >>
    ELSE << c >>

RECURSIVE Escaped(_)
Escaped(str) == IF str = <<>> THEN <<>> ELSE EscapeChar(str[1]) \o Escaped(Tail(str))

Quoted(str) == << "\"" >> \o Escaped(str) \o << "\"" >>

RECURSIVE JsonText(_), JsonItems(_), JsonMembers(_, _)

\* the text of a value that is not undefined
JsonText(v) ==
    CASE v.type = "string" -> Quoted(v.str)
      [] v.type = "number" -> Str(ToString(v.num))
      [] v.type = "boolean" -> IF v.bool THEN Str("true") ELSE Str("false")
      [] v.type = "array" -> << "[" >> \o JsonItems(v.items) \o << "]" >>
      [] v.type = "object" ->
            << "{" >> \o JsonMembers(v.fields, {k \in DOMAIN v.fields :
                                                  v.fields[k].type # "undefined"})
                      \o << "}" >>
      [] OTHER -> Str("null")

\* the elements of an array; undefined is written as null
JsonItems(items) ==
    IF items = <<>> THEN <<>>
    ELSE JsonText(items[1])
            \o (IF Len(items) = 1 THEN <<>> ELSE << "," >> \o JsonItems(Tail(items)))

\* the members with the keys given; a member that is undefined is left out
JsonMembers(fields, keys) ==
    IF keys = {} THEN <<>>
    ELSE LET k == CHOOSE key \in keys : TRUE
         IN  Quoted(Str(k)) \o << ":" >> \o JsonText(fields[k])
                \o (IF keys = {k} THEN <<>> ELSE << "," >> \o JsonMembers(fields, keys \ {k}))

\* JSON.stringify(v)
JsonStringify(v) == IF v.type = "undefined" THEN JUndefined ELSE JChars(JsonText(v))

(***************************************************************************)
(* extractTransfers (src/README.md lines 613-750).  A transfer is a record *)
(* of type, from, to, amount and direction (and source_channel for an IBC  *)
(* transfer); type and direction are literals of the code.  The transfers  *)
(* found are an array, JArr(<<transfer, ...>>).                            *)
(***************************************************************************)
\* String.prototype.includes
Includes(str, lit) ==
    \E i \in 1..(Len(str) - Len(lit) + 1) : SubSeq(str, i, i + Len(lit) - 1) = Str(lit)

\* msgType.includes(lit): a string holds a substring, an array an element
TypeIncludes(msgType, lit) ==
    IF IsStr(msgType) THEN Includes(msgType.str, lit)
    ELSE \E i \in 1..Len(msgType.items) : JStrictEq(msgType.items[i], JStr(lit))

\* what for (const x of v) runs over: the elements of an array, the
\* characters of a string; any other value is not iterable
IsIterable(v) == IsArr(v) \/ IsStr(v)
Iterated(v) == IF IsArr(v) THEN v.items ELSE [i \in 1..Len(v.str) |-> JChars(<< v.str[i] >>)]

\* faulty variant: the recipient is looked at first
Direction_recipientFirst(from, to, targetAddress) ==
    IF JStrictEq(to, targetAddress) THEN "received"
    ELSE IF JStrictEq(from, targetAddress) THEN "sent"
    ELSE "related"

\* from === targetAddress ? 'sent' : to === targetAddress ? 'received' : 'related'
Direction(from, to, targetAddress) ==
    IF JStrictEq(from, targetAddress) THEN "sent"
    ELSE IF JStrictEq(to, targetAddress) THEN "received"
    ELSE "related"

Transfer(type, from, to, amount, direction) ==
    [type |-> type, from |-> from, to |-> to, amount |-> amount, direction |-> direction]

\* lines 621-637: a bank send message
BankSend(msg, targetAddress) ==
    LET from == JOr(JOr(JGet(msg, "from_address"), JGet(msg, "sender")), JGet(msg, "from"))
        to == JOr(JOr(JGet(msg, "to_address"), JGet(msg, "receiver")), JGet(msg, "to"))
        amount == JOr(JOr(JGet(msg, "amount"), JGet(msg, "value")), JArr(<<>>))
    IN  IF JTruthy(from) /\ JTruthy(to)
        THEN JArr(<< Transfer("bank_send", from, to, amount,
                              Direction(from, to, targetAddress)) >>)
        ELSE JArr(<<>>)

\* lines 639-656: an IBC transfer message
IbcTransfer(msg, targetAddress) ==
    LET sender == JOr(JGet(msg, "sender"), JGet(msg, "from_address"))
        receiver == JOr(JGet(msg, "receiver"), JGet(msg, "to_address"))
        token == JOr(JGet(msg, "token"),
                     JObj([denom |-> JGet(msg, "denom"), amount |-> JGet(msg, "amount")]))
    IN  IF JTruthy(sender)
        THEN JArr(<< [type |-> "ibc_transfer",
                 from |-> sender,
                 to |-> JOr(receiver, JStr("ibc-destination")),
                 amount |-> JArr(<< token >>),
                 source_channel |-> JOr(JGet(msg, "source_channel"), JGet(msg, "sourceChannel")),
                 direction |-> Direction(sender, receiver, targetAddress)] >>)
        ELSE JArr(<<>>)

\* lines 664-686: the entries of inputs (or outputs) whose address is the
\* target; TypeError if the list is not iterable or an entry is null
MultiSendEntries(list, targetAddress, type) ==
    IF ~IsIterable(list) THEN TypeError
    ELSE LET entries == Iterated(list)
         IN  IF \E i \in 1..Len(entries) : Nullish(entries[i]) THEN TypeError
             ELSE LET hits == SelectSeq(entries,
                                 LAMBDA e : JStrictEq(JGet(e, "address"), targetAddress))
                  IN  JArr([i \in 1..Len(hits) |->
                         LET amount == JOr(JGet(hits[i], "coins"), JGet(hits[i], "amount"))
                         IN  IF type = "multisend_input"
                             THEN Transfer(type, JGet(hits[i], "address"), JStr("multiple"),
                                           amount, "sent")
                             ELSE Transfer(type, JStr("multiple"), JGet(hits[i], "address"),
                                           amount, "received")])

\* the transfers of the inputs, then those of the outputs
Joined(ins, outs) ==
    IF ins = TypeError \/ outs = TypeError THEN TypeError
    ELSE JArr(ins.items \o outs.items)

\* lines 658-687: a multi-send message
MultiSend(msg, targetAddress) ==
    Joined(MultiSendEntries(JOr(JGet(msg, "inputs"), JArr(<<>>)), targetAddress,
                            "multisend_input"),
           MultiSendEntries(JOr(JGet(msg, "outputs"), JArr(<<>>)), targetAddress,
                            "multisend_output"))

\* lines 618-688, the body of the loop over parsed.messages: the transfers
\* one message adds; msg['@type'] of a null message throws, and so does
\* includes of a type that is neither a string nor an array
MessageTransfers(msg, targetAddress) ==
    IF Nullish(msg) THEN TypeError
    ELSE LET msgType == JOr(JOr(JGet(msg, "@type"), JGet(msg, "type")), JStr(""))
         IN  IF ~(IsStr(msgType) \/ IsArr(msgType)) THEN TypeError
             ELSE IF TypeIncludes(msgType, "MsgSend") \/ TypeIncludes(msgType, "bank")
             THEN BankSend(msg, targetAddress)
             ELSE IF TypeIncludes(msgType, "MsgTransfer") \/ TypeIncludes(msgType, "ibc")
             THEN IbcTransfer(msg, targetAddress)
             ELSE IF TypeIncludes(msgType, "MsgMultiSend")
             THEN MultiSend(msg, targetAddress)
             ELSE JArr(<<>>)

\* the loop over parsed.messages
RECURSIVE AllMessageTransfers(_, _, _), AfterMessage(_, _, _, _)
AllMessageTransfers(msgs, targetAddress, found) ==
    IF msgs = <<>> THEN found
    ELSE AfterMessage(msgs, targetAddress, found, MessageTransfers(msgs[1], targetAddress))

\* the loop once the first message gave more
AfterMessage(msgs, targetAddress, found, more) ==
    IF more = TypeError THEN TypeError
    ELSE AllMessageTransfers(Tail(msgs), targetAddress, JArr(found.items \o more.items))

\* getAttrValue(key): the value of the first attribute with the key, null
\* if there is none
GetAttrValue(attrs, key) ==
    LET hits == {i \in 1..Len(attrs) : JStrictEq(JGet(attrs[i], "key"), JStr(key))}
    IN  IF hits = {} THEN JNull
        ELSE JGet(attrs[CHOOSE i \in hits : \A j \in hits : i <= j], "value")

\* lines 705-708: transfers.some(t => t.from === sender && t.to === recipient
\* && JSON.stringify(t.amount) === JSON.stringify(amount))
IsDuplicate(found, sender, recipient, amount) ==
    \E i \in 1..Len(found.items) :
        /\ JStrictEq(found.items[i].from, sender)
        /\ JStrictEq(found.items[i].to, recipient)
        /\ JsonStringify(found.items[i].amount) = JsonStringify(amount)

\* lines 698-745: the transfers after an event of type transfer, coin_spent
\* or coin_received with the attributes items
Added(type, items, targetAddress, found, amount, parsedAmount) ==
    IF JStrictEq(type, JStr("transfer"))
    THEN LET sender == GetAttrValue(items, "sender")
             recipient == GetAttrValue(items, "recipient")
         IN  IF JTruthy(sender) /\ JTruthy(recipient) /\ JTruthy(amount)
                /\ ~IsDuplicate(found, sender, recipient, amount)
             THEN IF parsedAmount = TypeError THEN TypeError
                  ELSE JArr(Append(found.items,
                                   Transfer("transfer_event", sender, recipient, parsedAmount,
                                            Direction(sender, recipient, targetAddress))))
             ELSE found
    ELSE IF JStrictEq(type, JStr("coin_spent"))
    THEN LET spender == GetAttrValue(items, "spender")
         IN  IF JStrictEq(spender, targetAddress) /\ JTruthy(amount)
             THEN IF parsedAmount = TypeError THEN TypeError
                  ELSE JArr(Append(found.items,
                                   Transfer("coin_spent", spender, JStr("unknown"),
                                            parsedAmount, "sent")))
             ELSE found
    ELSE LET receiver == GetAttrValue(items, "receiver")
         IN  IF JStrictEq(receiver, targetAddress) /\ JTruthy(amount)
             THEN IF parsedAmount = TypeError THEN TypeError
                  ELSE JArr(Append(found.items,
                                   Transfer("coin_received", JStr("unknown"), receiver,
                                            parsedAmount, "received")))
             ELSE found

\* const amount = getAttrValue('amount'), and parseAmount(amount) where a
\* transfer is pushed
WithAmount(type, items, targetAddress, found, amount) ==
    Added(type, items, targetAddress, found, amount, parseAmount(amount))

\* lines 692-746, the body of the loop over parsed.events: the transfers
\* after one event; find of attributes that are no array throws, and so
\* does parseAmount of an amount that is neither a string nor an array
EventTransfers(event, targetAddress, found) ==
    LET type == JGet(event, "type")
        attrs == JGet(event, "attributes")
    IN  IF ~(\E t \in {"transfer", "coin_spent", "coin_received"} : JStrictEq(type, JStr(t)))
        THEN found
        ELSE IF ~IsArr(attrs) THEN TypeError
        ELSE WithAmount(type, attrs.items, targetAddress, found,
                        GetAttrValue(attrs.items, "amount"))

\* the loop over parsed.events
RECURSIVE AllEventTransfers(_, _, _), AfterEvent(_, _, _)
AllEventTransfers(events, targetAddress, found) ==
    IF events = <<>> THEN found
    ELSE AfterEvent(events, targetAddress, EventTransfers(events[1], targetAddress, found))

\* the loop once the first event gave next
AfterEvent(events, targetAddress, next) ==
    IF next = TypeError THEN TypeError
    ELSE AllEventTransfers(Tail(events), targetAddress, next)

\* lines 618-688: the transfers of the messages
FromMessages(messages, targetAddress) ==
    IF ~IsIterable(messages) THEN TypeError
    ELSE AllMessageTransfers(Iterated(messages), targetAddress, JArr(<<>>))

\* lines 691-747: the transfers of the events, after those of the messages
FromEvents(events, targetAddress, fromMessages) ==
    IF fromMessages = TypeError THEN TypeError
    ELSE AllEventTransfers(events.items, targetAddress, fromMessages)

\* what extractTransfers does with the record parseTransaction returned
Extracted(call, targetAddress) ==
    IF call.returned = TypeError THEN call
    ELSE Returned(FromEvents(call.returned.events, targetAddress,
                             FromMessages(call.returned.messages, targetAddress)),
                  call.tx)

\* extractTransfers(tx, targetAddress): the transfers or TypeError, and the
\* raw record as parseTransaction leaves it
extractTransfers(tx, targetAddress) ==
    Extracted(parseTransaction("TransactionFetcher", tx), targetAddress)

(***************************************************************************)
(* SpecParse: the raw records.  A record is made of a tx payload, the      *)
(* events of its result, the key the result is found under and a result    *)
(* code.  The addresses are addrA, addrB and addrC; base64 texts are       *)
(* written out ("c2VuZGVy" is sender).                                     *)
(***************************************************************************)
Addresses == << "addrA", "addrB", "addrC" >>

\* an object without the keys given
Without(fields, keys) == [k \in DOMAIN fields \ keys |-> fields[k]]

\* a message: an object with @type and the fields given
Msg(type, fields) == JObj(("@type" :> JStr(type)) @@ fields)

Attr(key, value) == JObj([key |-> JStr(key), value |-> JStr(value), index |-> JBool(TRUE)])

EventObj(type, attrs) == JObj([type |-> JStr(type), attributes |-> JArr(attrs)])

Coins(amount, denom) == JArr(<< Coin(amount, denom) >>)

BankMsg(from, to) ==
    Msg("/cosmos.bank.v1beta1.MsgSend",
        [from_address |-> JStr(from), to_address |-> JStr(to), amount |-> Coins("1000", "uatom")])

IbcMsg(sender, receiver) ==
    Msg("/ibc.applications.transfer.v1.MsgTransfer",
        [sender |-> JStr(sender), receiver |-> JStr(receiver),
         token |-> Coin("7", "uatom"), source_channel |-> JStr("channel-0")])

MultiSendMsg(type) ==
    Msg(type,
        [inputs |-> JArr(<< JObj([address |-> JStr("addrA"), coins |-> Coins("30", "uatom")]) >>),
         outputs |-> JArr(<< JObj([address |-> JStr("addrB"), coins |-> Coins("10", "uatom")]),
                             JObj([address |-> JStr("addrC"), coins |-> Coins("20", "uatom")]),
                             JObj([address |-> JStr("addrB"), coins |-> Coins("5", "uosmo")]) >>)])

\* message lists of a decoded payload
MessageLists ==
    << <<>>,
       << BankMsg("addrA", "addrB") >>,
       << BankMsg("addrA", "addrA") >>,
       << IbcMsg("addrA", "addrB") >>,
       << MultiSendMsg("/cosmos.bank.v1beta1.MsgMultiSend") >>,
       << MultiSendMsg("/custom.v1.MsgMultiSend") >>,
       << BankMsg("addrB", "addrC"), IbcMsg("addrB", "addrB") >>,
       << Msg("/cosmos.bank.v1beta1.MsgSend",
              [from_address |-> JStr("addrA"), to_address |-> JStr("addrB"),
               amount |-> JStr("1000uatom")]) >>,
       << JObj([type |-> JStr("cosmos-sdk/MsgSend"),
                value |-> JObj([from_address |-> JStr("addrA")])]) >>,
       << Msg("/cosmos.staking.v1beta1.MsgDelegate", [delegator_address |-> JStr("addrA")]) >> >>

\* the tx field: absent, a string, or the decoded object
Payloads ==
    << JUndefined,
       JStr("CpIBCo8BChwvY29zbW9zLmJhbmsudjFiZXRhMS5Nc2dTZW5k"),
       JStr("not base64 at all!"),
       JStr("bnVsbA=="),
       JStr("eyJtc2ciOltdfQ=="),
       JStr("eyJib2R5Ijp7Im1lc3NhZ2VzIjpbeyJAdHlwZSI6Ii9jb3Ntb3MuYmFuay52MWJldGExLk1zZ1NlbmQiLCJmcm9tX2FkZHJlc3MiOiJhZGRyQSIsInRvX2FkZHJlc3MiOiJhZGRyQiIsImFtb3VudCI6W3siZGVub20iOiJ1YXRvbSIsImFtb3VudCI6IjEwMDAifV19XSwibWVtbyI6ImhpIn19"),
       JObj([msg |-> JArr(<< BankMsg("addrA", "addrB") >>), memo |-> JStr("old")]) >>
    \o [i \in 1..Len(MessageLists) |->
           JObj([body |-> JObj([messages |-> JArr(MessageLists[i]), memo |-> JStr("")]),
                 auth_info |-> JObj([fee |-> JObj([gas_limit |-> JStr("200000")])])])]

\* keys and values of single attributes
AttrKeys ==
    << JStr("c2VuZGVy"), JStr("sender"), JStr("already plain"), JStr(""), JStr("gA=="),
       JStr("WVdKag=="), JStr("YWJj"), JStr("AWE="), JStr("c2Vu\tZGVy"), JUndefined >>

AttrValues == << JStr("Y29zbW9zMWFiYw=="), JStr("x"), JStr(""), JUndefined >>

\* the events field of the result: absent, well-formed (base64 or plain
\* attributes), or malformed
WellFormedEvents ==
    << JUndefined,
       JArr(<<>>),
       JArr(<< EventObj("transfer", << Attr("cmVjaXBpZW50", "YWRkckI="), Attr("c2VuZGVy", "YWRkckE="),
                                    Attr("YW1vdW50", "MTAwMHVhdG9t") >>) >>),
       JArr(<< EventObj("transfer", << Attr("recipient", "addrB"), Attr("sender", "addrA"),
                                    Attr("amount", "1000uatom") >>) >>),
       JArr(<< EventObj("coin_spent", << Attr("spender", "addrA"), Attr("amount", "1000uatom") >>),
               EventObj("coin_received", << Attr("receiver", "addrB"), Attr("amount", "1000uatom") >>),
               EventObj("transfer", << Attr("recipient", "addrB"), Attr("sender", "addrA"),
                                    Attr("amount", "1000uatom,5") >>) >>),
       JArr(<< EventObj("tx", << Attr("dGltZXN0YW1w", "MjAyNC0wMS0wMQ==") >>),
               EventObj("message", << Attr("c2VuZGVy", "YWRkckE=") >>) >>),
       JArr(<< EventObj("coin_received", << Attr("receiver", "addrC"), Attr("amount", "uatom") >>) >>) >>

MalformedEvents ==
    << JStr("oops"),
       JObj([type |-> JStr("transfer")]),
       JArr(<< JNull >>),
       JArr(<< EventObj("message", << Attr("c2VuZGVy", "YWRkckE=") >>), JNull >>),
       JArr(<< JObj([type |-> JStr("message"), attributes |-> JStr("oops")]) >>),
       JArr(<< JObj([type |-> JStr("tx"), attributes |-> JObj([key |-> JStr("timestamp")])]) >>),
       JArr(<< EventObj("message", << Attr("c2VuZGVy", "YWRkckE="), JNull >>) >>),
       JArr(<< JObj([type |-> JStr("transfer")]) >>),
       JArr(<< JStr("oops") >>) >>

SingleAttributeEvents ==
    [n \in 1..(Len(AttrKeys) * Len(AttrValues)) |->
        LET key == AttrKeys[((n - 1) \div Len(AttrValues)) + 1]
            value == AttrValues[((n - 1) % Len(AttrValues)) + 1]
            absent == {k \in {"key", "value"} :
                          (IF k = "key" THEN key ELSE value) = JUndefined}
        IN  JArr(<< JObj([type |-> JStr("message"),
                          attributes |->
                              JArr(<< JObj(Without([key |-> key, value |-> value,
                                                    index |-> JBool(FALSE)], absent)) >>)]) >>)]

EventFields == WellFormedEvents \o MalformedEvents \o SingleAttributeEvents

\* the result code: absent, 0, not 0, or the string "0"
Codes == << JUndefined, JNum(0), JNum(5), JStr("0") >>

\* the raw record with the payload, the events and the code given, its
\* result under the key given ("" for no result at all, "code" for a code
\* at the top of the record, as the REST service gives it)
Raw(payload, events, code, key) ==
    LET result == JObj(Without([events |-> events, code |-> code],
                               {k \in {"events", "code"} :
                                   (IF k = "events" THEN events ELSE code) = JUndefined}))
        head == [hash |-> JStr("H1"), height |-> JStr("12")]
        body == IF payload = JUndefined THEN head ELSE ("tx" :> payload) @@ head
    IN  IF key = "" THEN JObj(body)
        ELSE IF key = "code"
        THEN JObj(IF code = JUndefined THEN body ELSE ("code" :> code) @@ body)
        ELSE JObj((key :> result) @@ body)

ResultFields == << "tx_result", "result", "TxResult", "", "code" >>

\* the records: every payload with every events field, and every code
\* under every key
Records ==
    [n \in 1..(Len(Payloads) * Len(EventFields)) |->
        Raw(Payloads[((n - 1) \div Len(EventFields)) + 1],
            EventFields[((n - 1) % Len(EventFields)) + 1], JUndefined, "tx_result")]
    \o [n \in 1..(Len(Codes) * Len(ResultFields)) |->
           Raw(Payloads[2], WellFormedEvents[3],
               Codes[((n - 1) \div Len(ResultFields)) + 1],
               ResultFields[((n - 1) % Len(ResultFields)) + 1])]

Fetchers == {"TransactionFetcher", "FixedRPCTransactionFetcher"}

InitParse ==
    /\ ppc = "input"
    /\ \E n \in 1..Len(Records) : raw0 = Records[n]
    /\ raw = raw0
    /\ \E a \in 1..Len(Addresses) : target = JStr(Addresses[a])
    /\ parsedBy = "none"
    /\ firstParsed = JUndefined
    /\ parsed = JUndefined
    /\ transfers = JUndefined
    /\ DedupIdle
    /\ FetchIdle
    /\ EnvelopeIdle
    /\ AmountIdle
    /\ RestIdle
    /\ WalletIdle
    /\ SummaryIdle

\* the call has returned (or thrown) and left the raw record as call.tx
ParseCalled(call) ==
    /\ parsed' = call.returned
    /\ raw' = call.tx

ExtractCalled(call) ==
    /\ transfers' = call.returned
    /\ raw' = call.tx

\* const parsed = this.parseTransaction(tx), of one of the two RPC fetchers
Parse ==
    /\ ppc = "input"
    /\ \E fetcher \in Fetchers :
          /\ ParseCalled(parseTransaction(fetcher, raw))
          /\ parsedBy' = fetcher
    /\ firstParsed' = parsed'
    /\ ppc' = "parsed"
    /\ UNCHANGED <<raw0, target, transfers, dvars, fvars, evars, avars, rvars, wvars, svars>>

\* const parsed = this.parseTransaction(tx), of the REST fetcher
ParseREST ==
    /\ ppc = "input"
    /\ ParseCalled(REST_parseTransaction(raw))
    /\ parsedBy' = "RESTTransactionFetcher"
    /\ firstParsed' = parsed'
    /\ ppc' = "parsed"
    /\ UNCHANGED <<raw0, target, transfers, dvars, fvars, evars, avars, rvars, wvars, svars>>

\* the same raw record is parsed once more by the same fetcher
ParseAgain ==
    /\ ppc = "parsed"
    /\ ParseCalled(IF parsedBy = "RESTTransactionFetcher" THEN REST_parseTransaction(raw)
                   ELSE parseTransaction(parsedBy, raw))
    /\ ppc' = "reparsed"
    /\ UNCHANGED <<raw0, target, parsedBy, firstParsed, transfers, dvars, fvars, evars, avars, rvars, wvars, svars>>

\* const transfers = this.extractTransfers(tx, address)
Extract ==
    /\ ppc = "input"
    /\ ExtractCalled(extractTransfers(raw, target))
    /\ parsedBy' = "TransactionFetcher"
    /\ ppc' = "extracted"
    /\ UNCHANGED <<raw0, target, firstParsed, parsed, dvars, fvars, evars, avars, rvars, wvars, svars>>

\* generateSummary, lines 794 and 815: the record that parseTransaction was
\* called on is handed to extractTransfers
ExtractAfterParse ==
    /\ ppc = "parsed"
    /\ parsedBy = "TransactionFetcher"
    /\ parsed # TypeError
    /\ ExtractCalled(extractTransfers(raw, target))
    /\ ppc' = "summarised"
    /\ UNCHANGED <<raw0, target, parsedBy, firstParsed, parsed, dvars, fvars, evars, avars, rvars, wvars, svars>>

NextParse == Parse \/ ParseREST \/ ParseAgain \/ Extract \/ ExtractAfterParse

SpecParse == InitParse /\ [][NextParse]_vars

(***************************************************************************)
(* SpecAmount: parseAmount applied to every string of at most MaxStr       *)
(* characters over digits, letters, the comma and the space, to the        *)
(* amounts of the documentation, and to values that are not strings.       *)
(***************************************************************************)
AmountAlphabet == {"1", "0", "u", ",", " "}

RECURSIVE StringsUpTo(_, _)
StringsUpTo(alphabet, n) ==
    IF n = 0 THEN {<<>>}
    ELSE LET shorter == StringsUpTo(alphabet, n - 1)
         IN  shorter \cup {Append(str, c) : str \in {t \in shorter : Len(t) = n - 1},
                                            c \in alphabet}

AmountStrings ==
    StringsUpTo(AmountAlphabet, MaxStr)
        \cup {Str("1000uatom,2000uosmo"), Str("1000uatom"), Str(" 5uatom , 12ibc/27A6 "),
              Str("1000"), Str("uatom,7")}

AmountLists == {JArr(<<>>), JArr(<< Coin("1000", "uatom") >>), JArr(<< JStr("1000uatom") >>)}

InitAmount ==
    /\ apc = "input"
    /\ \/ \E str \in AmountStrings : amountStr = JChars(str)
       \/ amountStr \in AmountLists
       \/ amountStr \in {JUndefined, JNull}
    /\ amounts = JUndefined
    /\ DedupIdle
    /\ FetchIdle
    /\ EnvelopeIdle
    /\ ParseIdle
    /\ RestIdle
    /\ WalletIdle
    /\ SummaryIdle

\* const amounts = this.parseAmount(amountStr)
ParseTheAmount ==
    /\ apc = "input"
    /\ amounts' = parseAmount(amountStr)
    /\ apc' = "parsed"
    /\ UNCHANGED <<amountStr, dvars, fvars, evars, pvars, rvars, wvars, svars>>

NextAmount == ParseTheAmount

SpecAmount == InitAmount /\ [][NextAmount]_vars

(***************************************************************************)
(* Claims about deduplicateTransactions (checked under SpecDedup).         *)
(***************************************************************************)
\* the hash of a raw record as the claims use it: its hash field or, when
\* that is absent or empty, its txhash field; NoHash when neither is there
NoHash(r) == r.hash \in {Undefined, ""} /\ r.txhash \in {Undefined, ""}
HashOf(r) == IF r.hash \in {Undefined, ""} THEN r.txhash ELSE r.hash

HashesOf(list) == {HashOf(list[i]) : i \in {j \in 1..Len(list) : ~NoHash(list[j])}}

\* the records of list that are the first of their hash, in list order
RECURSIVE FirstOccurrences(_, _)
FirstOccurrences(list, i) ==
    IF i > Len(list) THEN <<>>
    ELSE IF ~NoHash(list[i]) /\ \A j \in 1..(i - 1) : NoHash(list[j]) \/ HashOf(list[j]) # HashOf(list[i])
         THEN <<list[i]>> \o FirstOccurrences(list, i + 1)
         ELSE FirstOccurrences(list, i + 1)

\* C1: the list returned by deduplicateTransactions holds no two records
\* with the same hash, and exactly one record for every distinct hash that
\* occurs in the input.
C1_UniqueHashes ==
    dpc = "deduped" =>
        /\ \A i, j \in 1..Len(unique) : i # j => HashOf(unique[i]) # HashOf(unique[j])
        /\ \A h \in HashesOf(allTxs) :
               Cardinality({i \in 1..Len(unique) : HashOf(unique[i]) = h}) = 1
        /\ Range(unique) \subseteq Range(allTxs)

\* C1 witness: a three-record input in which one hash occurs twice was
\* deduplicated to two records
C1_Witness ==
    /\ dpc = "deduped"
    /\ Len(allTxs) = 3
    /\ Cardinality(HashesOf(allTxs)) = 2
    /\ ~NoHash(allTxs[1]) /\ ~NoHash(allTxs[2]) /\ ~NoHash(allTxs[3])
    /\ Len(unique) = 2

\* C2: first occurrence wins: of several records with the same hash the
\* one kept is the earliest in the list, and the kept records appear in the
\* order of their first occurrences.
C2_FirstOccurrenceWins ==
    dpc = "deduped" => unique = FirstOccurrences(allTxs, 1)

\* C2 witness: two different records with the same hash, with a record of
\* another hash between them; the earlier one was kept, in first place
C2_Witness ==
    /\ dpc = "deduped"
    /\ Len(allTxs) = 3
    /\ HashOf(allTxs[1]) = "H1" /\ HashOf(allTxs[3]) = "H1" /\ HashOf(allTxs[2]) = "H2"
    /\ allTxs[1] # allTxs[3]
    /\ unique = <<allTxs[1], allTxs[2]>>

\* C3: deduplication is idempotent: deduplicating the result again, or
\* deduplicating the list concatenated with itself, gives the result of
\* deduplicating the list once.
C3_Idempotent ==
    dpc \in {"rededuped", "remerged"} => unique = firstUnique

\* C3 witness: a list with two distinct hashes was merged twice and
\* deduplicated to the same two records
C3_Witness ==
    /\ dpc = "remerged"
    /\ Len(allTxs) = 2 * MaxLen
    /\ Len(unique) = 2
    /\ unique = firstUnique

(***************************************************************************)
(* Claims about fetchAllTransactions, queryTxsByEvent and fetchWithRetry   *)
(* (checked under Spec).                                                   *)
(***************************************************************************)
Last(list) == list[Len(list)]

CeilDiv(a, b) == (a + b - 1) \div b

\* the calls of fetch of the current query, in order
Fetches == SelectSeq(trace, LAMBDA e : e.ev = "fetch")

\* the pages the current query has logged as found, in order
PagesFound == SelectSeq(trace, LAMBDA e : e.ev = "console.log:page")

FetchesOfPage(p) == {i \in 1..Len(trace) : trace[i].ev = "fetch" /\ trace[i].page = p}

\* every request of the current query was answered with its page
CleanTrace ==
    \A i \in 1..Len(trace) :
        trace[i].ev \notin {"console.error:attempt", "console.error:page",
                            "console.error:query", "console.warn:format"}

Failed(q) == qEnd[q].how \in {"service_error", "retries_exhausted"}

\* the records query q returned
ReturnedBy(q) == Prefix(Ledger[q], qEnd[q].count)

\* the elements of a returned list that are a record of a failed query
\* rather than a raw record
FailureRecordsIn(result) ==
    {i \in 1..Len(result) : DOMAIN result[i] \cap {"query", "error", "failed"} # {}}

C4_Isolation ==
    /\ pc = "q_return" => transactions = ReturnedBy(qi)
    /\ pc = "done" =>
          /\ \A q \in Queries : qEnd[q].how # "pending" /\ qEnd[q].count <= total[q]
          /\ Range(uniqueTxs) =
                {r \in UNION {Range(ReturnedBy(q)) : q \in Queries} : ~NoHash(r)}
          /\ Cardinality({HashOf(uniqueTxs[i]) : i \in 1..Len(uniqueTxs)}) = Len(uniqueTxs)

\* C4 (as amended): every planned query is executed however the earlier
\* ones ended; a failing query contributes the records of the pages it had
\* fetched (none or some); the returned list is the deduplicated union of
\* the records all queries returned, so it is non-empty whenever some query
\* returned a record that carries a hash.
C4_FailureIsolation ==
    /\ C4_Isolation
    /\ pc = "done" =>
          ((\E q \in Queries : \E r \in Range(ReturnedBy(q)) : ~NoHash(r))
              => uniqueTxs # <<>>)

\* C4 witness: query 1 lost its second page to three failed attempts and
\* kept its first page; queries 2 and 3 ran and succeeded
C4_Witness ==
    /\ pc = "done"
    /\ qEnd[1] = Ended("retries_exhausted", PAGE_SIZE)
    /\ qEnd[2] = Ended("short_page", 3)
    /\ qEnd[3] = Ended("short_page", 2)
    /\ Len(uniqueTxs) = PAGE_SIZE + 2

\* C4 as stated: ... the returned set is non-empty whenever some query
\* succeeded with records.
C4_Original ==
    /\ C4_Isolation
    /\ pc = "done" =>
          ((\E q \in Queries : ~Failed(q) /\ qEnd[q].count > 0) => uniqueTxs # <<>>)

\* C5: when the service holds T records for a query, T not a multiple of
\* the page size 100, and answers every request with its page, the query
\* requests the pages 1..ceil(T/100), once each and in order, and no page
\* after them; no page beyond ceil(T/100) is requested in any run.
C5_StopsOnShortPage ==
    (pc \notin {"fa_for", "done", "idle"} /\ total[qi] % 100 # 0) =>
        LET pages == CeilDiv(total[qi], 100)
        IN  /\ \A i \in 1..Len(trace) : trace[i].ev = "fetch" => trace[i].page <= pages
            /\ (pc = "q_return" /\ CleanTrace) =>
                  /\ Fetches = [p \in 1..pages |-> Event("fetch", p, 1)]
                  /\ PagesFound =
                        [p \in 1..pages |->
                            Event("console.log:page", p,
                                  IF p < pages THEN 100 ELSE total[qi] % 100)]
                  /\ Len(transactions) = total[qi]

\* C5 witness: 250 records were fetched with the three requests of pages
\* 1, 2, 3, which found 100, 100 and 50 records
C5_Witness ==
    /\ pc = "q_return"
    /\ total[qi] = 250
    /\ CleanTrace
    /\ Len(Fetches) = 3
    /\ PagesFound = << Event("console.log:page", 1, 100), Event("console.log:page", 2, 100),
                       Event("console.log:page", 3, 50) >>

\* C6 as stated: once the number of records collected for a query equals
\* the total_count the service reported, no further page is requested
\* (also when the last page fetched was full).
C6_StopsAtTotalCount ==
    (pc = "f_await" /\ page > 1) => Len(transactions) # totalCount

\* C7: a page is tried at most 3 times; failed attempt k < 3 is followed by
\* setTimeout(k * 1000) and then attempt k + 1 of the same page; the third
\* failed attempt is followed by no wait and no attempt, the failure reaches
\* queryTxsByEvent; an attempt that is answered is the last of its page.
C7_BoundedRetry ==
    /\ \A i \in 1..Len(trace) :
          LET e == trace[i]
          IN  /\ e.ev = "fetch" =>
                    /\ e.n \in 1..3
                    /\ IF e.n = 1
                       THEN FetchesOfPage(e.page) \cap (1..(i - 1)) = {}
                       ELSE trace[i - 1] = Event("setTimeout", e.page, (e.n - 1) * 1000)
                    /\ (i < Len(trace) /\ trace[i + 1].ev # "console.error:attempt")
                          => FetchesOfPage(e.page) \cap ((i + 1)..Len(trace)) = {}
              /\ e.ev = "console.error:attempt" =>
                    /\ trace[i - 1] = Event("fetch", e.page, e.n)
                    /\ i < Len(trace)
                    /\ IF e.n < 3
                       THEN /\ trace[i + 1] = Event("setTimeout", e.page, e.n * 1000)
                            /\ i + 1 = Len(trace) => pc \in {"f_backoff", "f_try"}
                            /\ i + 1 < Len(trace) =>
                                  trace[i + 2] = Event("fetch", e.page, e.n + 1)
                       ELSE /\ trace[i + 1] = Event("console.error:page", e.page, 0)
                            /\ i + 1 = Len(trace)
                            /\ ~hasMore
                            /\ pc \notin {"f_try", "f_await", "f_backoff", "q_ratelimit"}
    /\ \A p \in 1..page : Cardinality(FetchesOfPage(p)) <= 3
    /\ pc = "f_backoff" => Last(trace) = Event("setTimeout", page, attempt * 1000)

\* C7 witness: the first page failed three times, with waits of 1000 and
\* 2000 ms between the attempts and none after the third
C7_Witness ==
    /\ Len(trace) = 10
    /\ SubSeq(trace, 2, 10) =
          << Event("fetch", 1, 1), Event("console.error:attempt", 1, 1),
             Event("setTimeout", 1, 1000),
             Event("fetch", 1, 2), Event("console.error:attempt", 1, 2),
             Event("setTimeout", 1, 2000),
             Event("fetch", 1, 3), Event("console.error:attempt", 1, 3),
             Event("console.error:page", 1, 0) >>
    /\ pc = "q_return"

\* C8: if page n of a query fails all 3 attempts, the query requests no
\* page after n and returns exactly the records of pages 1..n-1, without
\* raising.
C8_ExhaustionTruncates ==
    /\ (reply = "failure" /\ attempt = 3 /\ pc \notin {"f_backoff", "f_try"}) =>
          /\ pc \in {"q_while", "q_return"} /\ ~hasMore
          /\ qEnd[qi].how = "retries_exhausted"
    /\ (pc = "q_return" /\ qEnd[qi].how = "retries_exhausted") =>
          /\ Cardinality(FetchesOfPage(page)) = 3
          /\ \A i \in 1..Len(trace) : trace[i].ev = "fetch" => trace[i].page <= page
          /\ transactions = SubSeq(Ledger[qi], 1, (page - 1) * 100)
          /\ Len(transactions) = (page - 1) * 100

\* C8 witness: the third page failed three times; the query returned the
\* 200 records of pages 1 and 2
C8_Witness ==
    /\ pc = "q_return"
    /\ qEnd[qi].how = "retries_exhausted"
    /\ page = 3
    /\ Len(transactions) = 200

\* C9 (as amended): an attempt that the service answers with an error
\* object is the last attempt for its page and the last request of the
\* query: no wait and no request follows it, no record of that response is
\* added, and the query returns the records of the earlier pages.  (Failed
\* attempts for the same page may have come before it.)
C9_ServiceErrorNotRetried ==
    reply = "error" =>
        /\ pc = "q_return"
        /\ Len(trace) >= 2
        /\ Last(trace) = Event("console.error:query", page, 0)
        /\ trace[Len(trace) - 1] = Event("fetch", page, attempt)
        /\ transactions = SubSeq(Ledger[qi], 1, (page - 1) * 100)
        /\ Len(transactions) = (page - 1) * 100
        /\ qEnd[qi] = Ended("service_error", Len(transactions))

\* C9 witness: the second page was answered with an error object at the
\* first attempt; the query returns the first page
C9_Witness ==
    /\ reply = "error"
    /\ page = 2
    /\ Cardinality(FetchesOfPage(2)) = 1
    /\ Len(transactions) = 100
    /\ pc = "q_return"

\* C9 as stated: when the service answers a page request with an error
\* object, exactly one request attempt is made for that page.
C9_Original ==
    reply = "error" =>
        /\ pc = "q_return"
        /\ Cardinality(FetchesOfPage(page)) = 1
        /\ transactions = SubSeq(Ledger[qi], 1, (page - 1) * 100)

RecordsOf(inner) == IF "txs" \in DOMAIN inner THEN inner.txs ELSE <<>>

\* C11: whichever of the two forms the answer comes in, queryTxsByEvent
\* collects the records the answer carries after those it had (none when
\* txs is missing), and goes on to the next page exactly when the answer
\* carried PAGE_SIZE records; the total count, present or missing, has no
\* part in either.
C11_ShapeIndependent ==
    epc = "read" =>
        /\ transactions = before.transactions \o RecordsOf(envelope)
        /\ hasMore = (Len(RecordsOf(envelope)) = PAGE_SIZE)
        /\ page = IF Len(RecordsOf(envelope)) = 0 THEN before.page ELSE before.page + 1
        /\ pc = IF hasMore THEN "q_ratelimit" ELSE "q_while"

\* C11 witness: a full second page read in the unwrapped form, its
\* total_count missing
C11_Witness ==
    /\ epc = "read"
    /\ shape = "unwrapped"
    /\ DOMAIN envelope = {"txs"}
    /\ Len(transactions) = 2 * PAGE_SIZE
    /\ hasMore

(***************************************************************************)
(* Claims about parseAmount (checked under SpecAmount).                    *)
(***************************************************************************)
\* the places of the commas of a string, and the ends of its segments: the
\* k-th segment lies between the (k-1)-th and the k-th comma
CommasOf(str) == {i \in 1..Len(str) : CharAt(str, i) = ","}
SegmentCount(str) == Cardinality(CommasOf(str)) + 1
CommaBefore(str, k) ==
    IF k = 1 THEN 0
    ELSE CHOOSE i \in CommasOf(str) : Cardinality({j \in CommasOf(str) : j < i}) = k - 2
CommaAfter(str, k) ==
    IF k = SegmentCount(str) THEN Len(str) + 1
    ELSE CHOOSE i \in CommasOf(str) : Cardinality({j \in CommasOf(str) : j < i}) = k - 1

\* entry is what the claim says of the segment that lies between the
\* places lo and hi: with the blanks at its ends removed, if it is a run of
\* digits followed by a nonempty rest that begins with no digit, entry is
\* the pair of the two
IsEntryOf(entry, str, lo, hi) ==
    \A a \in (lo + 1)..(hi - 1) : \A d \in a..(hi - 2) :
        ( /\ \A i \in (lo + 1)..(a - 1) : CharAt(str, i) = " "
          /\ \A i \in a..d : IsDigit(CharAt(str, i))
          /\ ~IsDigit(CharAt(str, d + 1))
          /\ \E i \in (d + 1)..(hi - 1) : CharAt(str, i) # " " )
        => \E b \in (d + 1)..(hi - 1) :
              /\ \A i \in (b + 1)..(hi - 1) : CharAt(str, i) = " "
              /\ CharAt(str, b) # " "
              /\ entry = JObj([amount |-> JChars(SubSeq(str, a, d)),
                                denom |-> JChars(SubSeq(str, d + 1, b))])

\* C17: parseAmount returns one entry per comma-separated segment, in
\* order; a segment that is a run of digits followed by a nonempty rest
\* gives {amount: the digits, denom: the rest}; the empty string gives the
\* empty list; a list is returned as it is; "1000uatom,2000uosmo" gives
\* [{1000, uatom}, {2000, uosmo}].
C17_ParseAmount ==
    apc = "parsed" =>
        /\ IsArr(amountStr) => amounts = amountStr
        /\ amountStr = JStr("") => amounts = JArr(<<>>)
        /\ amountStr = JStr("1000uatom,2000uosmo") =>
              amounts = JArr(<< Coin("1000", "uatom"), Coin("2000", "uosmo") >>)
        /\ (IsStr(amountStr) /\ amountStr.str # <<>>) =>
              /\ IsArr(amounts)
              /\ Len(amounts.items) = SegmentCount(amountStr.str)
              /\ \A k \in 1..SegmentCount(amountStr.str) :
                    IsEntryOf(amounts.items[k], amountStr.str,
                              CommaBefore(amountStr.str, k), CommaAfter(amountStr.str, k))

\* C17 witness: the amount of the documentation has been parsed into its
\* two pairs
C17_Witness ==
    /\ apc = "parsed"
    /\ amountStr = JStr("1000uatom,2000uosmo")
    /\ amounts = JArr(<< Coin("1000", "uatom"), Coin("2000", "uosmo") >>)

(***************************************************************************)
(* C12                                                                     *)
(***************************************************************************)
\* the raw record has events that are no list, an event entry that is null,
\* an attribute entry that is null, or attributes that are no list
MalformedRecord(tx) ==
    \E key \in {"tx_result", "result", "TxResult"} :
        /\ key \in DOMAIN tx.fields
        /\ \E m \in 1..Len(MalformedEvents) :
              JGet(tx.fields[key], "events") = MalformedEvents[m]

\* C12: parseTransaction of an RPC fetcher returns a result without raising
\* for every raw record, including records whose tx payload is no valid
\* base64 or not parseable, whose result or events are absent, and whose
\* events or attribute entries are malformed (events not a list, attributes
\* not a list, a null attribute entry).
C12_DecoderTotal ==
    (ppc = "parsed" /\ parsedBy \in Fetchers) => parsed # TypeError

\* C12, the part that holds: a record whose events are absent or well-formed
\* is parsed without raising, whatever its payload
C12_TotalOnWellFormedEvents ==
    (ppc = "parsed" /\ parsedBy \in Fetchers /\ ~MalformedRecord(raw0))
        => parsed # TypeError

(***************************************************************************)
(* C13                                                                     *)
(***************************************************************************)
\* the result code the raw record carries for the fetcher that parsed it:
\* the code of its result object (RPC), the code of the record (REST)
CarriedCode(fetcher, tx) ==
    IF fetcher = "RESTTransactionFetcher" THEN JGet(tx, "code")
    ELSE JGet(ResultOf(fetcher, tx), "code")

\* C13: in every transaction value returned by parseTransaction (of the RPC
\* fetchers and of the REST fetcher), success is true exactly when code is
\* 0, and code is 0 when the raw record carries no result code.
C13_SuccessFromCode ==
    (ppc = "parsed" /\ parsed # TypeError) =>
        /\ parsed.success = (parsed.code = JNum(0))
        /\ CarriedCode(parsedBy, raw0) = JUndefined => parsed.code = JNum(0)

\* C13 witness: a record with the result code 5 was parsed by an RPC fetcher
\* and is no success
C13_Witness ==
    /\ ppc = "parsed"
    /\ parsedBy = "FixedRPCTransactionFetcher"
    /\ CarriedCode(parsedBy, raw0) = JNum(5)
    /\ parsed # TypeError
    /\ parsed.code = JNum(5)
    /\ parsed.success = FALSE

(***************************************************************************)
(* C19                                                                     *)
(***************************************************************************)
\* the attributes of the events of the raw record, each with the attribute
\* at its place in the value parsed from the record
AttributePairs ==
    LET events == EventsOf(parsedBy, raw0)
        listed == {i \in 1..Len(events.items) :
                      /\ IsObj(events.items[i])
                      /\ IsArr(JGet(events.items[i], "attributes"))}
    IN  UNION {{<< JGet(events.items[i], "attributes").items[j],
                   JGet(parsed.events.items[i], "attributes").items[j] >> :
                   j \in 1..Len(JGet(events.items[i], "attributes").items)} : i \in listed}

\* the rule of the claim for the attribute a of the raw record and the
\* attribute b parsed from it, where Blank says what counts as whitespace;
\* it covers a key that is a string and a value that is a string or absent
DecodingRule(Blank(_), a, b) ==
    LET key == JGet(a, "key")
        value == JGet(a, "value")
        decodedKey == Base64ToString(key.str)
    IN  (IsObj(a) /\ IsStr(key) /\ (IsStr(value) \/ value = JUndefined)) =>
            IF \E c \in Chars(key.str) : Blank(c) THEN b = a
            ELSE IF IsPrintableAscii(decodedKey)
            THEN b = JObj([key |-> JChars(decodedKey),
                           value |-> IF value = JUndefined THEN JStr("")
                                     ELSE JChars(Base64ToString(value.str)),
                           index |-> JGet(a, "index")])
            ELSE b = a

\* {key: "c2VuZGVy", value: "Y29zbW9zMWFiYw=="} becomes
\* {key: "sender", value: "cosmos1abc"}
DecodingExample(a, b) ==
    (JGet(a, "key") = JStr("c2VuZGVy") /\ JGet(a, "value") = JStr("Y29zbW9zMWFiYw=="))
        => (JGet(b, "key") = JStr("sender") /\ JGet(b, "value") = JStr("cosmos1abc"))

IsSpace(c) == c = " "

\* C19 (as amended): an attribute whose key contains a space character is
\* returned unchanged; an attribute whose key is a string without a space
\* character (other whitespace does not count) is replaced by
\* {base64-decoded key, base64-decoded value, same index} only if the decoded
\* key is non-empty printable ASCII, and is returned unchanged otherwise;
\* {key: "c2VuZGVy", value: "Y29zbW9zMWFiYw=="} becomes
\* {key: "sender", value: "cosmos1abc"}.
C19_AttributeDecoding ==
    (ppc = "parsed" /\ parsedBy \in Fetchers /\ parsed # TypeError) =>
        \A pair \in AttributePairs :
            /\ DecodingRule(IsSpace, pair[1], pair[2])
            /\ DecodingExample(pair[1], pair[2])

\* C19 witness: the attribute of the example has been decoded, by either
\* RPC fetcher
C19_Witness ==
    /\ ppc = "parsed"
    /\ parsedBy \in Fetchers
    /\ parsed # TypeError
    /\ \E pair \in AttributePairs :
          /\ JGet(pair[1], "key") = JStr("c2VuZGVy")
          /\ JGet(pair[1], "value") = JStr("Y29zbW9zMWFiYw==")
          /\ pair[2] = JObj([key |-> JStr("sender"), value |-> JStr("cosmos1abc"),
                             index |-> JBool(FALSE)])

\* C19 as stated: an attribute whose key contains whitespace (a space, a
\* tab, a line break) is returned unchanged; ...
C19_Original ==
    (ppc = "parsed" /\ parsedBy \in Fetchers /\ parsed # TypeError) =>
        \A pair \in AttributePairs :
            /\ DecodingRule(IsWhiteSpace, pair[1], pair[2])
            /\ DecodingExample(pair[1], pair[2])

(***************************************************************************)
(* C20                                                                     *)
(***************************************************************************)
\* C20: parseTransaction leaves the raw record it is given unchanged
\* (including its events and their attribute lists), so parsing the same
\* raw record twice, or parsing it and then running extractTransfers on it
\* as generateSummary does, leaves the record as it was and gives the same
\* decoded events and attributes each time.
C20_DecodingIsPure ==
    /\ ppc \in {"parsed", "reparsed", "extracted", "summarised"} => raw = raw0
    /\ (ppc = "reparsed" /\ firstParsed # TypeError) =>
          /\ parsed # TypeError
          /\ parsed.events = firstParsed.events

\* C20, the part that holds: parseTransaction of the REST fetcher assigns
\* to nothing of the raw record, and a second call returns the same value
C20_RestIsPure ==
    (ppc \in {"parsed", "reparsed"} /\ parsedBy = "RESTTransactionFetcher") =>
        /\ raw = raw0
        /\ ppc = "reparsed" => parsed = firstParsed

\* a raw record has been written to by one call of parseTransaction: the
\* attribute {key: "c2VuZGVy", ...} of its first event is {key: "sender", ...}
C20_RecordWritten ==
    /\ ppc = "parsed"
    /\ parsedBy = "TransactionFetcher"
    /\ raw # raw0
    /\ \E pair \in AttributePairs :
          JGet(pair[1], "key") = JStr("c2VuZGVy") /\ JGet(pair[2], "key") = JStr("sender")
    /\ JGet(JGet(raw, "tx_result"), "events") = parsed.events

\* the second call decoded again what the first call had decoded: the key
\* "WVdKag==" was "YWJj" after the first call and is "abc" after the second
C20_DecodedTwice ==
    /\ ppc = "reparsed"
    /\ parsedBy \in Fetchers
    /\ firstParsed # TypeError
    /\ parsed # TypeError
    /\ \E i \in 1..Len(parsed.events.items) :
          LET was == JGet(firstParsed.events.items[i], "attributes")
              is == JGet(parsed.events.items[i], "attributes")
          IN  /\ IsArr(was) /\ IsArr(is)
              /\ \E j \in 1..Len(is.items) :
                    /\ JGet(was.items[j], "key") = JStr("YWJj")
                    /\ JGet(is.items[j], "key") = JStr("abc")

(***************************************************************************)
(* C14                                                                     *)
(***************************************************************************)
\* the messages of the raw record, as the decoder reads them
MessagesOf(tx) == ReadTxData(tx).messages.items

IsBankSend(msg) == JGet(msg, "@type") = JStr("/cosmos.bank.v1beta1.MsgSend")
IsIbcTransfer(msg) == JGet(msg, "@type") = JStr("/ibc.applications.transfer.v1.MsgTransfer")

\* the transfers of one type among those returned
OfType(type) == SelectSeq(transfers.items, LAMBDA t : t.type = type)

\* the direction of a movement from a to b for the target
Classified(a, b) ==
    IF target = a THEN "sent" ELSE IF target = b THEN "received" ELSE "related"

\* extractTransfers has returned the transfers of the record
Extracted_ok == ppc \in {"extracted", "summarised"} /\ transfers # TypeError

\* C14: for a bank-send message with sender A and recipient B,
\* extractTransfers yields one bank_send transfer whose direction is sent
\* when the target equals A, received when the target equals B and differs
\* from A, and related when the target is neither; the same rule, applied
\* to sender and receiver, classifies ibc_transfer messages.
C14_Direction ==
    Extracted_ok =>
        LET sends == SelectSeq(MessagesOf(raw0), IsBankSend)
            ibcs == SelectSeq(MessagesOf(raw0), IsIbcTransfer)
        IN  /\ Len(OfType("bank_send")) = Len(sends)
            /\ \A k \in 1..Len(sends) :
                  LET t == OfType("bank_send")[k]
                  IN  /\ t.from = JGet(sends[k], "from_address")
                      /\ t.to = JGet(sends[k], "to_address")
                      /\ t.direction = Classified(t.from, t.to)
            /\ Len(OfType("ibc_transfer")) = Len(ibcs)
            /\ \A k \in 1..Len(ibcs) :
                  LET t == OfType("ibc_transfer")[k]
                  IN  /\ t.from = JGet(ibcs[k], "sender")
                      /\ t.to = JGet(ibcs[k], "receiver")
                      /\ t.direction = Classified(t.from, t.to)

\* C14 witness: a bank send from addrA to addrA, extracted for addrA, is
\* sent
C14_Witness ==
    /\ Extracted_ok
    /\ target = JStr("addrA")
    /\ Len(MessagesOf(raw0)) = 1
    /\ IsBankSend(MessagesOf(raw0)[1])
    /\ Len(OfType("bank_send")) = 1
    /\ OfType("bank_send")[1].from = JStr("addrA")
    /\ OfType("bank_send")[1].to = JStr("addrA")
    /\ OfType("bank_send")[1].direction = "sent"

(***************************************************************************)
(* C15                                                                     *)
(***************************************************************************)
\* the message-derived transfer u and the event-derived transfer t are one
\* movement: the same sender, recipient and amount (the amount of u as the
\* message gives it, a list of coins or a string; that of t parsed)
SameMovement(u, t) ==
    /\ u.from = t.from
    /\ u.to = t.to
    /\ parseAmount(u.amount) = t.amount

\* C15: when a transaction contains a bank-send message moving amount X
\* from A to B and also a transfer event with sender A, recipient B and the
\* same amount X, extractTransfers returns exactly one transfer for that
\* movement (the message-derived one) and no transfer_event for it.
C15_NoDuplicate ==
    Extracted_ok =>
        \A i, j \in 1..Len(transfers.items) :
            (transfers.items[i].type = "bank_send" /\ transfers.items[j].type = "transfer_event")
                => ~SameMovement(transfers.items[i], transfers.items[j])

\* C15, the part that holds: a transfer event is left out when a message
\* gave the same sender and recipient and, as its amount, the very string
\* of the event
C15_NoDuplicateOfStringAmount ==
    Extracted_ok =>
        \A i, j \in 1..Len(transfers.items) :
            (/\ transfers.items[i].type = "bank_send"
             /\ transfers.items[j].type = "transfer_event"
             /\ IsStr(transfers.items[i].amount))
                => ~SameMovement(transfers.items[i], transfers.items[j])

\* the movement of 1000uatom from addrA to addrB is returned twice, as a
\* bank_send and as a transfer_event
C15_Duplicated ==
    /\ Extracted_ok
    /\ Len(transfers.items) = 2
    /\ transfers.items[1] = Transfer("bank_send", JStr("addrA"), JStr("addrB"),
                                     Coins("1000", "uatom"), Classified(JStr("addrA"), JStr("addrB")))
    /\ transfers.items[2] = Transfer("transfer_event", JStr("addrA"), JStr("addrB"),
                                     Coins("1000", "uatom"), Classified(JStr("addrA"), JStr("addrB")))

(***************************************************************************)
(* C16                                                                     *)
(***************************************************************************)
IsMultiSend(msg) ==
    IsStr(JGet(msg, "@type")) /\ Includes(JGet(msg, "@type").str, "MsgMultiSend")

\* the entries of a list whose address is the target
Matching(list) == SelectSeq(list.items, LAMBDA e : JGet(e, "address") = target)

\* the transfers the claim gives for one multi-send message: one for each
\* matching input, then one for each matching output
ExpectedOfMultiSend(msg) ==
    LET ins == Matching(JGet(msg, "inputs"))
        outs == Matching(JGet(msg, "outputs"))
    IN  [i \in 1..Len(ins) |->
            Transfer("multisend_input", JGet(ins[i], "address"), JStr("multiple"),
                     JGet(ins[i], "coins"), "sent")]
        \o [i \in 1..Len(outs) |->
               Transfer("multisend_output", JStr("multiple"), JGet(outs[i], "address"),
                        JGet(outs[i], "coins"), "received")]

RECURSIVE ExpectedOfMultiSends(_)
ExpectedOfMultiSends(msgs) ==
    IF msgs = <<>> THEN <<>>
    ELSE ExpectedOfMultiSend(msgs[1]) \o ExpectedOfMultiSends(Tail(msgs))

\* the multi-send transfers among those returned
MultiSendTransfers ==
    SelectSeq(transfers.items, LAMBDA t : t.type \in {"multisend_input", "multisend_output"})

\* C16: for every multi-send message (including the standard bank-module
\* type /cosmos.bank.v1beta1.MsgMultiSend), extractTransfers yields one
\* multisend_input transfer with direction sent for each input entry whose
\* address equals the target, one multisend_output transfer with direction
\* received for each output entry whose address equals the target, and
\* nothing for the other entries.
C16_MultiSend ==
    Extracted_ok =>
        MultiSendTransfers = ExpectedOfMultiSends(SelectSeq(MessagesOf(raw0), IsMultiSend))

\* C16, the part that holds: the same for the multi-send messages whose
\* type names neither the bank module nor a send or a transfer
C16_MultiSendOfOtherModules ==
    Extracted_ok =>
        MultiSendTransfers =
            ExpectedOfMultiSends(
                SelectSeq(MessagesOf(raw0),
                          LAMBDA m : /\ IsMultiSend(m)
                                     /\ \A part \in {"bank", "MsgSend", "MsgTransfer", "ibc"} :
                                           ~Includes(JGet(m, "@type").str, part)))

\* a multi-send of the bank module with two outputs to addrB, extracted for
\* addrB, gave no transfer at all
C16_StandardMultiSendIgnored ==
    /\ Extracted_ok
    /\ target = JStr("addrB")
    /\ Len(MessagesOf(raw0)) = 1
    /\ JGet(MessagesOf(raw0)[1], "@type") = JStr("/cosmos.bank.v1beta1.MsgMultiSend")
    /\ Len(ExpectedOfMultiSend(MessagesOf(raw0)[1])) = 2
    /\ transfers.items = <<>>

\* a multi-send of another module, extracted for addrB, gave its two
\* outputs to addrB
C16_OtherMultiSendClassified ==
    /\ Extracted_ok
    /\ target = JStr("addrB")
    /\ Len(MessagesOf(raw0)) = 1
    /\ JGet(MessagesOf(raw0)[1], "@type") = JStr("/custom.v1.MsgMultiSend")
    /\ Len(transfers.items) = 2
    /\ \A i \in 1..2 : /\ transfers.items[i].type = "multisend_output"
                       /\ transfers.items[i].direction = "received"

(***************************************************************************)
(* C18                                                                     *)
(***************************************************************************)
\* a {denom, amount} pair
IsCoin(v) == IsObj(v) /\ DOMAIN v.fields = {"denom", "amount"}

\* a list whose elements are all {denom, amount} pairs
IsCoinList(v) == IsArr(v) /\ \A i \in 1..Len(v.items) : IsCoin(v.items[i])

\* C18: every amount of every transfer returned by extractTransfers is a
\* list whose elements are all {denom, amount} pairs; no transfer carries a
\* raw unparsed string, an undefined amount, or a list containing an
\* unparsed string segment, whatever the message and event contents.
C18_AmountsAreCoinLists ==
    Extracted_ok =>
        \A i \in 1..Len(transfers.items) : IsCoinList(transfers.items[i].amount)

\* a bank_send transfer carries the string its message gave as the amount
C18_RawStringAmount ==
    /\ Extracted_ok
    /\ \E i \in 1..Len(transfers.items) :
          /\ transfers.items[i].type = "bank_send"
          /\ transfers.items[i].amount = JStr("1000uatom")

\* a transfer made from an event carries a list with a segment left
\* unparsed: "1000uatom,5" gave [{amount: "1000", denom: "uatom"}, "5"]
C18_UnparsedSegment ==
    /\ Extracted_ok
    /\ \E i \in 1..Len(transfers.items) :
          /\ transfers.items[i].type = "transfer_event"
          /\ transfers.items[i].amount = JArr(<< Coin("1000", "uatom"), JStr("5") >>)

(***************************************************************************)
(* Claims about the order of the result, unknown responses, the order of   *)
(* the requests and the delay between pages (checked under Spec).          *)
(***************************************************************************)
\* the heights of a list of raw records, as the sort reads them
HeightsOf(list) == [i \in 1..Len(list) |-> parseInt(list[i].height)]

Descending(heights) ==
    \A i \in 1..(Len(heights) - 1) : heights[i] >= heights[i + 1]

\* C22: the list fetchAllTransactions returns is ordered by height
\* descending: of two adjacent records the earlier has a height greater
\* than or equal to the later, in whatever order the queries and pages
\* delivered the records; the sort neither adds nor drops a record.
C22_SortedByHeight ==
    pc = "done" =>
        /\ Descending(HeightsOf(uniqueTxs))
        /\ Range(uniqueTxs) = Range(deduplicateTransactions(allTransactions))
        /\ Len(uniqueTxs) = Len(deduplicateTransactions(allTransactions))

\* C22 witness: the queries delivered records of several heights in an
\* order that is not descending, and the result has been returned
C22_Witness ==
    /\ pc = "done"
    /\ Len(uniqueTxs) > PAGE_SIZE
    /\ ~Descending(HeightsOf(allTransactions))
    /\ Cardinality(Range(HeightsOf(uniqueTxs))) > 2

\* C23: a response that matches neither success shape and carries no error
\* object is treated as an empty page: no record is added, the pagination
\* of that query stops with no further request, nothing is raised (the
\* query returns and is not marked as failed), and the records of the
\* earlier pages are returned.
C23_UnknownIsEmptyPage ==
    reply = "unknown" =>
        /\ pc \in {"q_while", "q_return"}
        /\ ~hasMore
        /\ Len(trace) >= 2
        /\ Last(trace) = Event("console.warn:format", page, 0)
        /\ trace[Len(trace) - 1] = Event("fetch", page, attempt)
        /\ transactions = SubSeq(Ledger[qi], 1, (page - 1) * PAGE_SIZE)
        /\ Len(transactions) = (page - 1) * PAGE_SIZE
        /\ qEnd[qi] = Ended("unexpected_format", Len(transactions))
        /\ ~Failed(qi)

\* C23 witness: the second page of a query was answered with an object of
\* no known shape; the query has returned the 100 records of its first page
C23_Witness ==
    /\ reply = "unknown"
    /\ pc = "q_return"
    /\ page = 2
    /\ Len(transactions) = PAGE_SIZE
    /\ Cardinality(FetchesOfPage(2)) = 1

\* what the trace of a query shows of an answer to a request (a page that
\* came back empty in a known shape leaves no line)
AnswerEvents ==
    {"console.error:attempt", "console.log:page", "console.error:query",
     "console.warn:format"}

\* the requests of the current query that have not been answered
InFlight ==
    {i \in 1..Len(trace) :
        /\ trace[i].ev = "fetch"
        /\ IF i < Len(trace) THEN trace[i + 1].ev \notin AnswerEvents ELSE pc = "f_await"}

\* a query is being paginated
Paginating == pc \in {"q_while", "f_try", "f_await", "f_backoff", "q_ratelimit"}

\* C24: the requests are strictly sequential.  At most one request is in
\* flight: a request is followed in the trace by its answer before any
\* other request.  Within a query the first request is attempt 1 of page
\* 1, and each later request is either the next attempt of the same page
\* or attempt 1 of the next page, sent after that page was received.  A
\* query is paginated only after the pagination of every earlier query has
\* ended and before that of any later query has begun.
C24_StrictlySequential ==
    /\ Cardinality(InFlight) <= 1
    /\ \A i \in 1..Len(trace) :
          trace[i].ev = "fetch" =>
              IF i < Len(trace)
              THEN trace[i + 1].ev \in AnswerEvents /\ trace[i + 1].page = trace[i].page
              ELSE \/ pc = "f_await" /\ reply = "none"
                   \/ pc \in {"q_while", "q_return"} /\ reply = "page" /\ ~hasMore
                   \/ pc \in {"fa_for", "done"}
    /\ Len(Fetches) > 0 => Fetches[1] = Event("fetch", 1, 1)
    /\ \A k \in 1..(Len(Fetches) - 1) :
          \/ Fetches[k + 1] = Event("fetch", Fetches[k].page, Fetches[k].n + 1)
          \/ /\ Fetches[k + 1] = Event("fetch", Fetches[k].page + 1, 1)
             /\ \E i \in 1..Len(trace) :
                   /\ trace[i] = Event("console.log:page", Fetches[k].page, PAGE_SIZE)
                   /\ \A j \in FetchesOfPage(Fetches[k].page) : j < i
                   /\ \A j \in FetchesOfPage(Fetches[k].page + 1) : i < j
    /\ Paginating =>
          /\ \A q \in Queries : q < qi => qEnd[q].how # "pending"
          /\ \A q \in Queries : q > qi => qEnd[q].how = "pending"
    /\ (pc \in {"f_try", "f_await", "f_backoff", "q_ratelimit"}) => qEnd[qi].how = "pending"

\* C24 witness: the first request of the third query is in flight, after
\* the first query ran through its three pages and the second query ended,
\* with a failed attempt or a service error on the way
C24_Witness ==
    /\ qi = 3
    /\ pc = "f_await"
    /\ Fetches = << Event("fetch", 1, 1) >>
    /\ qEnd[1] = Ended("short_page", 250)
    /\ qEnd[2].how # "pending"
    /\ faults > 0

IsRateLimitWait(e) == e.ev = "setTimeout" /\ e.n = RATE_LIMIT_DELAY

\* C25: within one query, every first request of a page n + 1 comes right
\* after the fixed delay of RATE_LIMIT_DELAY ms, which was taken right
\* after page n was read with PAGE_SIZE records; every such delay is
\* followed by the request of the next page; no delay is taken after a
\* page that ends the pagination, so a query never returns out of a delay.
C25_InterPageDelay ==
    /\ \A i \in 1..Len(trace) :
          /\ (trace[i].ev = "fetch" /\ trace[i].n = 1 /\ trace[i].page > 1) =>
                /\ i > 2
                /\ trace[i - 1] = Event("setTimeout", trace[i].page - 1, RATE_LIMIT_DELAY)
                /\ trace[i - 2] = Event("console.log:page", trace[i].page - 1, PAGE_SIZE)
          /\ IsRateLimitWait(trace[i]) =>
                /\ i > 1
                /\ trace[i - 1] = Event("console.log:page", trace[i].page, PAGE_SIZE)
                /\ IF i < Len(trace)
                   THEN trace[i + 1] = Event("fetch", trace[i].page + 1, 1)
                   ELSE /\ pc \in {"q_ratelimit", "q_while", "f_try"}
                        /\ hasMore
                        /\ page = trace[i].page + 1
          /\ (trace[i].ev = "console.log:page" /\ trace[i].n < PAGE_SIZE) =>
                i = Len(trace) /\ ~hasMore
    /\ pc = "q_ratelimit" =>
          Len(trace) > 0 /\ Last(trace) = Event("setTimeout", page - 1, RATE_LIMIT_DELAY)
    /\ (pc \in {"q_return", "fa_for", "done"} /\ Len(trace) > 0) =>
          ~IsRateLimitWait(Last(trace))

\* C25 witness: a query of 250 records has returned; it waited twice, after
\* page 1 and after page 2, and not after page 3
C25_Witness ==
    /\ pc = "q_return"
    /\ total[qi] = 250
    /\ Len(transactions) = 250
    /\ Cardinality({i \in 1..Len(trace) : IsRateLimitWait(trace[i])}) = 2
    /\ Last(trace) = Event("console.log:page", 3, 50)

(***************************************************************************)
(* Termination (checked under SpecLive).                                   *)
(***************************************************************************)
\* C27: against a service that holds finitely many records for each query
\* and answers a page past the end with an empty list, every call of
\* queryTxsByEvent that was started eventually returns, whatever successes,
\* network failures, unknown answers and service errors occur on the way;
\* after its last query has returned, fetchAllTransactions eventually
\* returns; so every call of fetchAllTransactions eventually returns.
C27_Termination ==
    /\ \A q \in Queries :
          (pc = "q_while" /\ qi = q /\ page = 1 /\ hasMore)
              ~> (pc = "q_return" /\ qi = q)
    /\ (pc = "q_return" /\ qi = Len(getAddressQueries)) ~> (pc = "done")
    /\ <>(pc = "done")

\* C27 witness: the call has returned after a query that read two full
\* pages and an empty one, a query that ended on a service error, and
\* network failures
C27_Witness ==
    /\ pc = "done"
    /\ qEnd[1] = Ended("empty_page", 2 * PAGE_SIZE)
    /\ qEnd[2].how = "service_error"
    /\ faults = MaxFaults

(***************************************************************************)
(* Claims about the records one query returns (checked under Spec).        *)
(***************************************************************************)
\* the records of the pages 1..k of query q, in page order
RECURSIVE ConcatPages(_, _)
ConcatPages(q, k) ==
    IF k = 0 THEN <<>> ELSE ConcatPages(q, k - 1) \o PageOf(q, k)

\* the requests of page p that failed
FailedAttemptsOf(p) ==
    {i \in 1..Len(trace) : trace[i].ev = "console.error:attempt" /\ trace[i].page = p}

\* C28: at every point of a query, and so when it returns, its list is
\* exactly the concatenation, in page order, of the record lists of the
\* pages 1..k read so far, where the pages read are 1, 2, ..., k without
\* gap or repetition; no record is lost and none is held twice, also when
\* a page was read only at its second or third attempt.
C28_NoLossNoDuplication ==
    (pc \in {"q_while", "f_try", "f_await", "f_backoff", "q_ratelimit", "q_return"}) =>
        /\ \A j \in 1..Len(PagesFound) :
              PagesFound[j] = Event("console.log:page", j, Len(PageOf(qi, j)))
        /\ transactions = ConcatPages(qi, Len(PagesFound))
        /\ Cardinality(Range(transactions)) = Len(transactions)
        /\ pc = "q_return" => qEnd[qi].count = Len(transactions)

\* C28 witness: a query of 250 records has returned all of them, each once,
\* after the second page failed once and was read at the second attempt
C28_Witness ==
    /\ pc = "q_return"
    /\ FailedAttemptsOf(2) # {}
    /\ Cardinality(FetchesOfPage(2)) = 2
    /\ Len(PagesFound) = 3
    /\ transactions = Ledger[qi]
    /\ Len(transactions) = 250

(***************************************************************************)
(* Records without a hash (checked under SpecDedup).                       *)
(***************************************************************************)
\* C29: a raw record whose hash and txhash are both absent or empty never
\* appears in the list deduplicateTransactions returns (hence never in the
\* list fetchAllTransactions returns); every record of the input that
\* carries a non-empty hash or txhash is represented in the output by a
\* record of the same hash.
C29_HashlessDropped ==
    /\ dpc \in {"deduped", "rededuped", "remerged"} =>
          /\ \A j \in 1..Len(unique) : ~NoHash(unique[j])
          /\ \A i \in 1..Len(allTxs) :
                IF NoHash(allTxs[i])
                THEN allTxs[i] \notin Range(unique)
                ELSE \E j \in 1..Len(unique) : HashOf(unique[j]) = HashOf(allTxs[i])
    /\ pc = "done" =>
          /\ \A j \in 1..Len(uniqueTxs) : ~NoHash(uniqueTxs[j])
          /\ \A i \in 1..Len(allTransactions) :
                IF NoHash(allTransactions[i])
                THEN allTransactions[i] \notin Range(uniqueTxs)
                ELSE \E j \in 1..Len(uniqueTxs) :
                        HashOf(uniqueTxs[j]) = HashOf(allTransactions[i])

\* C29 witness: the input held a record without hash and txhash, a record
\* with an empty hash and no txhash, and a record with a hash; the output
\* is the last of them alone
C29_Witness ==
    /\ dpc = "deduped"
    /\ Len(allTxs) = 3
    /\ \E i \in 1..3 : allTxs[i].hash = Undefined /\ allTxs[i].txhash = Undefined
    /\ \E i \in 1..3 : allTxs[i].hash = "" /\ allTxs[i].txhash = Undefined
    /\ \E i \in 1..3 : allTxs[i].hash = "H2"
    /\ Len(unique) = 1
    /\ unique[1].hash = "H2"

(***************************************************************************)
(* SpecRest: one call of fetchViaRestAPI(address) against the REST         *)
(* service /cosmos/tx/v1beta1/txs.  The service holds restTotal records    *)
(* and hands them out in pages of pagination.limit = PAGE_SIZE; the cursor *)
(* of the page that starts after record n is the string "K<n>"; the last   *)
(* page comes with next_key null, with pagination null or without          *)
(* pagination.  Requests are sent by fetchWithRetry.                       *)
(***************************************************************************)
RestMax == 250

RestTotals == {0, 100, 150, 250}

RestLedger ==
    [n \in 1..RestMax |-> RawRecord(Undefined, "R" \o ToString(n), Digits(8 + (n % 5)), n)]

CursorOf(offset) == JStr("K" \o ToString(offset))

\* the number of records before the page a request asks for; a request
\* without pagination.key asks for the first page
OffsetOf(key) ==
    IF key = JNull THEN 0
    ELSE CHOOSE offset \in {k * PAGE_SIZE : k \in 1..(RestMax \div PAGE_SIZE)} :
            CursorOf(offset) = key

RestPage(key) ==
    SubSeq(RestLedger, OffsetOf(key) + 1, Min(OffsetOf(key) + PAGE_SIZE, restTotal))

CursorAfter(key) ==
    IF OffsetOf(key) + PAGE_SIZE < restTotal
    THEN CursorOf(OffsetOf(key) + PAGE_SIZE) ELSE JNull

\* the forms in which the service answers with a page and the cursor next
RestResponsesOf(txs, next) ==
    { JObj([tx_responses |-> JArr(txs),
            pagination |-> JObj([next_key |-> next, total |-> JStr("0")])]) }
    \cup (IF next = JNull
          THEN { JObj([tx_responses |-> JArr(txs), pagination |-> JNull]),
                 JObj([tx_responses |-> JArr(txs)]) }
          ELSE {})
    \cup (IF txs = <<>>
          THEN { JObj([pagination |-> JObj([next_key |-> JNull, total |-> JStr("0")])]) }
          ELSE {})

RestResponses(key) == RestResponsesOf(RestPage(key), CursorAfter(key))

RestEvent(ev, key, n) == [ev |-> ev, key |-> key, n |-> n]

\* if (response.tx_responses) transactions.push(...response.tx_responses)
TxResponsesOf(response) ==
    IF JTruthy(JGet(response, "tx_responses"))
    THEN JGet(response, "tx_responses").items ELSE <<>>

\* faulty variant: the cursor of the response is not read
NextKeyOf_ignored(response) == JNull

\* nextKey = response.pagination?.next_key || null
NextKeyOf(response) == JOr(JGetOpt(JGet(response, "pagination"), "next_key"), JNull)

InitRest ==
    /\ rpc = "r_do"
    /\ restTotal \in RestTotals
    /\ restTransactions = <<>>
    /\ nextKey = JNull
    /\ restAttempt = 0
    /\ restTrace = <<>>
    /\ restFaults = 0
    /\ DedupIdle
    /\ FetchIdle
    /\ EnvelopeIdle
    /\ AmountIdle
    /\ ParseIdle
    /\ WalletIdle
    /\ SummaryIdle

\* do { const params = ...; if (nextKey) params.append('pagination.key',
\* nextKey); const url = ...; fetchWithRetry: for (let attempt = 1; ...
RestBuildRequest ==
    /\ rpc = "r_do"
    /\ restAttempt' = 1
    /\ rpc' = "r_try"
    /\ UNCHANGED <<restTotal, restTransactions, nextKey, restTrace, restFaults,
                   dvars, fvars, evars, avars, pvars, wvars, svars>>

\* const response = await fetch(url, ...): the url carries pagination.key
\* if nextKey is truthy
RestSendRequest ==
    /\ rpc = "r_try"
    /\ restTrace' = Append(restTrace, RestEvent("fetch", nextKey, restAttempt))
    /\ rpc' = "r_await"
    /\ UNCHANGED <<restTotal, restTransactions, nextKey, restAttempt, restFaults,
                   dvars, fvars, evars, avars, pvars, wvars, svars>>

\* the attempt fails; after the last attempt fetchWithRetry throws and
\* fetchViaRestAPI: catch (error) { console.error('REST API error:', ...);
\* break }
RestAttemptFails ==
    /\ rpc = "r_await"
    /\ restFaults < MaxFaults
    /\ restFaults' = restFaults + 1
    /\ IF LastAttempt(restAttempt)
       THEN /\ restTrace' = restTrace
                     \o << RestEvent("console.error:attempt", nextKey, restAttempt),
                           RestEvent("console.error:rest", nextKey, 0) >>
            /\ rpc' = "r_return"
       ELSE /\ restTrace' = restTrace
                     \o << RestEvent("console.error:attempt", nextKey, restAttempt),
                           RestEvent("setTimeout", nextKey, RetryDelayFor(restAttempt)) >>
            /\ rpc' = "r_backoff"
    /\ UNCHANGED <<restTotal, restTransactions, nextKey, restAttempt,
                   dvars, fvars, evars, avars, pvars, wvars, svars>>

\* the backoff delay has elapsed: attempt++
RestBackoffElapsed ==
    /\ rpc = "r_backoff"
    /\ restAttempt' = restAttempt + 1
    /\ rpc' = "r_try"
    /\ UNCHANGED <<restTotal, restTransactions, nextKey, restTrace, restFaults,
                   dvars, fvars, evars, avars, pvars, wvars, svars>>

\* lines 869-877 and the test of while (nextKey): the records are pushed,
\* nextKey is set; if it is truthy the delay is taken and the loop goes on,
\* else the loop ends and transactions is returned
RestRead(txs, next) ==
    /\ restTransactions' = restTransactions \o txs
    /\ nextKey' = next
    /\ restTrace' = restTrace
             \o << RestEvent("response", next, Len(txs)) >>
             \o (IF JTruthy(next)
                 THEN << RestEvent("setTimeout", next, RATE_LIMIT_DELAY) >> ELSE <<>>)
    /\ rpc' = IF JTruthy(next) THEN "r_ratelimit" ELSE "r_return"

\* the service answers 2xx with the page asked for
RestReceivePage ==
    /\ rpc = "r_await"
    /\ \E response \in RestResponses(nextKey) :
          RestRead(TxResponsesOf(response), NextKeyOf(response))
    /\ UNCHANGED <<restTotal, restAttempt, restFaults,
                   dvars, fvars, evars, avars, pvars, wvars, svars>>

\* the inter-page delay has elapsed; while (nextKey) holds
RestRateLimitElapsed ==
    /\ rpc = "r_ratelimit"
    /\ rpc' = "r_do"
    /\ UNCHANGED <<restTotal, restTransactions, nextKey, restAttempt, restTrace,
                   restFaults, dvars, fvars, evars, avars, pvars, wvars, svars>>

NextRest ==
    \/ RestBuildRequest
    \/ RestSendRequest
    \/ RestAttemptFails
    \/ RestBackoffElapsed
    \/ RestReceivePage
    \/ RestRateLimitElapsed

SpecRest == InitRest /\ [][NextRest]_vars

\* the answers of the call so far, in order
RestAnswers == SelectSeq(restTrace, LAMBDA e : e.ev = "response")

\* the first attempts of the call so far, in order
RestFirstAttempts == SelectSeq(restTrace, LAMBDA e : e.ev = "fetch" /\ e.n = 1)

\* C26: fetchViaRestAPI requests a further page exactly when the answer
\* before had a next_key that is not null, and the request carries that
\* next_key as pagination.key (the first request carries none; a retry
\* carries the key of the attempt it repeats); the call stops at the first
\* answer without next_key and at the first page that failed MAX_RETRIES
\* times, and then returns all tx_responses collected so far: the records
\* of the pages answered, in order.
C26_RestPagination ==
    (rpc # "idle") =>
        /\ Len(RestFirstAttempts) > 0 => RestFirstAttempts[1].key = JNull
        /\ \A k \in 1..Len(RestAnswers) :
              /\ RestAnswers[k].key = CursorAfter(RestFirstAttempts[k].key)
              /\ IF RestAnswers[k].key = JNull
                 THEN /\ k = Len(RestAnswers)
                      /\ Len(RestFirstAttempts) = k
                      /\ rpc = "r_return"
                 ELSE \/ /\ Len(RestFirstAttempts) > k
                         /\ RestFirstAttempts[k + 1].key = RestAnswers[k].key
                      \/ /\ k = Len(RestAnswers)
                         /\ Len(RestFirstAttempts) = k
                         /\ rpc \in {"r_ratelimit", "r_do", "r_try"}
                         /\ nextKey = RestAnswers[k].key
        /\ \A i \in 1..Len(restTrace) :
              (restTrace[i].ev = "fetch" /\ restTrace[i].n > 1) =>
                  \E j \in 1..(i - 1) :
                      restTrace[j] = RestEvent("fetch", restTrace[i].key, restTrace[i].n - 1)
        /\ restTransactions = SubSeq(RestLedger, 1, Len(restTransactions))
        /\ Len(restTransactions) = Min(Len(RestAnswers) * PAGE_SIZE, restTotal)
        /\ rpc = "r_return" =>
              \/ /\ Last(restTrace).ev = "response"
                 /\ Last(restTrace).key = JNull
                 /\ Len(restTransactions) = restTotal
              \/ /\ Last(restTrace).ev = "console.error:rest"
                 /\ Cardinality({i \in 1..Len(restTrace) :
                                    /\ restTrace[i].ev = "fetch"
                                    /\ restTrace[i].key = Last(restTrace).key})
                       = MAX_RETRIES

\* C26 witness: the call has returned the 200 records of two pages after
\* the third page, asked for with the cursor of the second answer, failed
\* three times
C26_Witness ==
    /\ rpc = "r_return"
    /\ restTotal = 250
    /\ Len(restTransactions) = 200
    /\ Len(RestAnswers) = 2
    /\ Last(restTrace) = RestEvent("console.error:rest", CursorOf(200), 0)
    /\ RestFirstAttempts[3].key = RestAnswers[2].key

(***************************************************************************)
(* SpecWallet: one call of FixedRPCTransactionFetcher.fetchWalletTransactions *)
(* (src/fetchWithREST.js) against the tx_search service of Spec: the same  *)
(* three queries and the same ledger, of which the service holds the first *)
(* walletTotal[q] records of query q.  txSearch sends one request and      *)
(* returns the result object or null.                                      *)
(***************************************************************************)
\* this.txSearch(query, page, 100), / 100, === 100
WalletPerPage == 100

\* await setTimeout(200)
WalletDelay == 200

WalletPageOf(q, p) ==
    SubSeq(Ledger[q], (p - 1) * WalletPerPage + 1, Min(p * WalletPerPage, walletTotal[q]))

WalletEvent(ev, q, p, n) == [ev |-> ev, query |-> q, page |-> p, n |-> n]

\* what txSearch returns when it returns null
NullResult == [null |-> TRUE]

\* txSearch, lines 392-409: const data = await response.json();
\* if (data.error) return null; if (data.result) return data.result;
\* return null
TxSearchResult(data) ==
    IF "error" \in DOMAIN data THEN NullResult
    ELSE IF "result" \in DOMAIN data THEN data.result
    ELSE NullResult

\* if (result && result.txs && result.txs.length > 0)
HasRecords(result) ==
    /\ result # NullResult
    /\ "txs" \in DOMAIN result
    /\ Len(result.txs) > 0

\* const totalPages = Math.ceil(parseInt(result.total_count) / 100)
TotalPages(result) == (result.total_count + WalletPerPage - 1) \div WalletPerPage

\* faulty variant: the number of pages is not looked at
WalletHasMoreAfter_untilShort(result, p) == Len(result.txs) = WalletPerPage

\* hasMore = result.txs.length === 100 && page < totalPages
WalletHasMoreAfter(result, p) ==
    Len(result.txs) = WalletPerPage /\ p < TotalPages(result)

InitWallet ==
    /\ wpc = "w_for"
    /\ walletTotal \in {<<a, b, c>> : a \in Totals[1], b \in Totals[2], c \in Totals[3]}
    /\ wqi = 1
    /\ walletTransactions = <<>>
    /\ walletPage = 0
    /\ walletHasMore = FALSE
    /\ walletTrace = <<>>
    /\ walletFaults = 0
    /\ walletUnique = <<>>
    /\ DedupIdle
    /\ FetchIdle
    /\ EnvelopeIdle
    /\ AmountIdle
    /\ ParseIdle
    /\ RestIdle
    /\ SummaryIdle

\* for (const query of queries) { let page = 1; let hasMore = true;
WalletStartQuery ==
    /\ wpc = "w_for"
    /\ wqi \in Queries
    /\ walletPage' = 1
    /\ walletHasMore' = TRUE
    /\ wpc' = "w_while"
    /\ UNCHANGED <<walletTotal, wqi, walletTransactions, walletTrace, walletFaults,
                   walletUnique, dvars, fvars, evars, avars, pvars, rvars, svars>>

\* while (hasMore) { const result = await this.txSearch(query, page, 100):
\* txSearch calls fetch(url) once
WalletSearch ==
    /\ wpc = "w_while"
    /\ walletHasMore
    /\ walletTrace' = Append(walletTrace, WalletEvent("fetch", wqi, walletPage, 0))
    /\ wpc' = "w_await"
    /\ UNCHANGED <<walletTotal, wqi, walletTransactions, walletPage, walletHasMore,
                   walletFaults, walletUnique, dvars, fvars, evars, avars, pvars, rvars, svars>>

\* while (hasMore) is false: the for loop goes on to the next query
WalletLeaveLoop ==
    /\ wpc = "w_while"
    /\ ~walletHasMore
    /\ wqi' = wqi + 1
    /\ wpc' = "w_for"
    /\ UNCHANGED <<walletTotal, walletTransactions, walletPage, walletHasMore, walletTrace,
                   walletFaults, walletUnique, dvars, fvars, evars, avars, pvars, rvars, svars>>

\* lines 512-526: the loop body after txSearch has returned result, which
\* came about in the way named by how
WalletRead(result, how) ==
    IF HasRecords(result)
    THEN /\ walletTransactions' = walletTransactions \o result.txs
         /\ walletHasMore' = WalletHasMoreAfter(result, walletPage)
         /\ walletPage' = walletPage + 1
         /\ walletTrace' = walletTrace
                \o << WalletEvent(how, wqi, walletPage, Len(result.txs)) >>
                \o (IF walletHasMore'
                    THEN << WalletEvent("setTimeout", wqi, walletPage, WalletDelay) >>
                    ELSE <<>>)
         /\ wpc' = IF walletHasMore' THEN "w_ratelimit" ELSE "w_while"
    ELSE /\ walletHasMore' = FALSE
         /\ walletTrace' = Append(walletTrace, WalletEvent(how, wqi, walletPage, 0))
         /\ wpc' = "w_while"
         /\ UNCHANGED <<walletTransactions, walletPage>>

\* the service answers with the page asked for, in the wrapped form
WalletReceivePage ==
    /\ wpc = "w_await"
    /\ WalletRead(TxSearchResult(WrappedEnvelope(WalletPageOf(wqi, walletPage),
                                                 walletTotal[wqi])), "page")
    /\ UNCHANGED <<walletTotal, wqi, walletFaults, walletUnique,
                   dvars, fvars, evars, avars, pvars, rvars, svars>>

\* the service answers with an error object, or with the page in the
\* unwrapped form, which txSearch does not read
WalletReceiveOther ==
    /\ wpc = "w_await"
    /\ walletFaults < MaxFaults
    /\ walletFaults' = walletFaults + 1
    /\ \/ WalletRead(TxSearchResult(ErrorEnvelope), "service error")
       \/ WalletRead(TxSearchResult(UnwrappedEnvelope(WalletPageOf(wqi, walletPage),
                                                      walletTotal[wqi])), "unwrapped")
    /\ UNCHANGED <<walletTotal, wqi, walletUnique,
                   dvars, fvars, evars, avars, pvars, rvars, svars>>

\* fetch rejects or the body is not JSON: txSearch: catch (error) {
\* console.error(...); return null }
WalletSearchFails ==
    /\ wpc = "w_await"
    /\ walletFaults < MaxFaults
    /\ walletFaults' = walletFaults + 1
    /\ WalletRead(NullResult, "network error")
    /\ UNCHANGED <<walletTotal, wqi, walletUnique,
                   dvars, fvars, evars, avars, pvars, rvars, svars>>

\* the delay between pages has elapsed
WalletRateLimitElapsed ==
    /\ wpc = "w_ratelimit"
    /\ wpc' = "w_while"
    /\ UNCHANGED <<walletTotal, wqi, walletTransactions, walletPage, walletHasMore,
                   walletTrace, walletFaults, walletUnique,
                   dvars, fvars, evars, avars, pvars, rvars, svars>>

\* const uniqueTxs = this.deduplicateTransactions(transactions); return uniqueTxs
WalletFinish ==
    /\ wpc = "w_for"
    /\ wqi \notin Queries
    /\ walletUnique' = deduplicateTransactions(walletTransactions)
    /\ wpc' = "done"
    /\ UNCHANGED <<walletTotal, wqi, walletTransactions, walletPage, walletHasMore,
                   walletTrace, walletFaults, dvars, fvars, evars, avars, pvars, rvars, svars>>

NextWallet ==
    \/ WalletStartQuery
    \/ WalletSearch
    \/ WalletLeaveLoop
    \/ WalletReceivePage
    \/ WalletReceiveOther
    \/ WalletSearchFails
    \/ WalletRateLimitElapsed
    \/ WalletFinish

SpecWallet == InitWallet /\ [][NextWallet]_vars

(***************************************************************************)
(* Claims about fetchWalletTransactions (checked under SpecWallet).        *)
(***************************************************************************)
WalletFetchesOf(q, p) ==
    {i \in 1..Len(walletTrace) :
        /\ walletTrace[i].ev = "fetch"
        /\ walletTrace[i].query = q
        /\ walletTrace[i].page = p}

\* the ways a request is answered
WalletAnswers == {"page", "service error", "unwrapped", "network error"}

\* the pages of query q that were answered with records
WalletPagesRead(q) ==
    {walletTrace[i].page : i \in {j \in 1..Len(walletTrace) :
                                     /\ walletTrace[j].ev = "page"
                                     /\ walletTrace[j].query = q
                                     /\ walletTrace[j].n > 0}}

\* the records of the pages of query q that were answered with records
WalletRecordsRead(q) ==
    Prefix(Ledger[q], Min(walletTotal[q], Cardinality(WalletPagesRead(q)) * WalletPerPage))

\* the queries that have been left
WalletLeft == {q \in Queries : q < wqi \/ (q = wqi /\ wpc = "w_while" /\ ~walletHasMore)}

Max(a, b) == IF a > b THEN a ELSE b

\* each page is requested at most once; a page that yields a network
\* error, a service error or no records ends its query; the records of the
\* earlier pages are kept; the next query still runs
C30_NoRetry ==
    (wpc # "idle") =>
        /\ \A q \in Queries : \A p \in 1..(MaxTotal[1] \div WalletPerPage + 2) :
              Cardinality(WalletFetchesOf(q, p)) <= 1
        /\ \A i \in 1..Len(walletTrace) :
              (walletTrace[i].ev \in WalletAnswers /\ walletTrace[i].n = 0) =>
                  /\ \A j \in (i + 1)..Len(walletTrace) :
                        walletTrace[j].query # walletTrace[i].query
                  /\ walletTrace[i].query \in WalletLeft
        /\ \A q \in Queries : WalletPagesRead(q) = 1..Cardinality(WalletPagesRead(q))
        /\ walletTransactions =
              WalletRecordsRead(1) \o WalletRecordsRead(2) \o WalletRecordsRead(3)
        /\ wpc = "done" =>
              /\ \A q \in Queries : Cardinality(WalletFetchesOf(q, 1)) = 1
              /\ walletUnique = deduplicateTransactions(walletTransactions)

\* C30 (as amended): in fetchWalletTransactions each page is requested at
\* most once; a page that yields a network error, a service error or no
\* records ends that query, keeps the records of its earlier pages, and the
\* next query still runs; for a query of which the service holds T
\* records, the first page is requested and no page with a number greater
\* than max(1, ceil(T/100)) is ever requested.
C30_WalletPagination ==
    /\ C30_NoRetry
    /\ \A i \in 1..Len(walletTrace) :
          walletTrace[i].ev = "fetch" =>
              walletTrace[i].page
                 <= Max(1, CeilDiv(walletTotal[walletTrace[i].query], WalletPerPage))

\* C30 witness: the call has returned; query 1, of 250 records, read its
\* first page and lost its second to a network error; query 2 was answered
\* with a service error at once; query 3 ran and read its two records
C30_Witness ==
    /\ wpc = "done"
    /\ walletTotal = <<250, 3, 2>>
    /\ \E i \in 1..Len(walletTrace) :
          walletTrace[i] = WalletEvent("network error", 1, 2, 0)
    /\ \E i \in 1..Len(walletTrace) :
          walletTrace[i] = WalletEvent("service error", 2, 1, 0)
    /\ Len(walletTransactions) = WalletPerPage + 2
    /\ WalletFetchesOf(1, 3) = {}

\* C30 as stated: ... for a query whose pages report total_count T, no
\* page with number greater than ceil(T/100) is ever requested.
C30_Original ==
    /\ C30_NoRetry
    /\ \A i \in 1..Len(walletTrace) :
          walletTrace[i].ev = "fetch" =>
              walletTrace[i].page
                 <= CeilDiv(walletTotal[walletTrace[i].query], WalletPerPage)

(***************************************************************************)
(* SpecSummary: TransactionFetcher.generateSummary(transactions, address)  *)
(* (src/README.md, lines 779-839), applied to lists of raw records as      *)
(* tx_search gives them: every record has a hash and a height written in   *)
(* decimal digits.  The call is made on the records in one order, and then *)
(* on the same records, fetched anew, in another order.                    *)
(***************************************************************************)
SumLen == 3

\* the raw record given, with the hash and the height given
Headed(hash, height, record) ==
    JObj([record.fields EXCEPT !.hash = JStr(hash), !.height = JStr(height)])

\* The records: a bank send of addrA that succeeded, a failed transaction
\* without payload and events, a delegation at a height of three digits, a
\* legacy transaction at the height of the second whose code is the string
\* "0", and a record whose list of events holds null.
SummaryRecords ==
    { Headed("A", "9", Raw(Payloads[6], WellFormedEvents[3], JNum(0), "tx_result")),
      Headed("B", "10", Raw(JUndefined, JUndefined, JNum(5), "tx_result")),
      Headed("C", "100", Raw(Payloads[Len(Payloads)], WellFormedEvents[5], JUndefined, "tx_result")),
      Headed("D", "10", Raw(Payloads[7], WellFormedEvents[7], JStr("0"), "tx_result")),
      Headed("E", "12", Raw(JUndefined, MalformedEvents[3], JUndefined, "tx_result")) }

\* NaN, the number that compares false with every number
JNaN == [type |-> "NaN"]

\* the decimal digits a string starts with
LeadingDigits(str) ==
    SubSeq(str, 1, CHOOSE n \in 0..Len(str) :
                       /\ \A i \in 1..n : IsDigit(str[i])
                       /\ n = Len(str) \/ ~IsDigit(str[n + 1]))

\* parseInt(v) of a string without sign and leading white space, of a whole
\* number, and of what is neither
JParseInt(v) ==
    IF IsStr(v) /\ LeadingDigits(v.str) # <<>> THEN JNum(NumberOf(LeadingDigits(v.str)))
    ELSE IF v.type = "number" THEN v
    ELSE JNaN

\* a < b of two numbers
JLess(a, b) == a # JNaN /\ b # JNaN /\ a.num < b.num

\* lines 780-791: the summary before the loop; a Map is the list of its
\* entries in the order of insertion
InitialSummary(txs, address) ==
    [address |-> address,
     totalTransactions |-> Len(txs),
     successfulTxs |-> 0,
     failedTxs |-> 0,
     sentTransfers |-> 0,
     receivedTransfers |-> 0,
     messageTypes |-> <<>>,
     eventTypes |-> <<>>,
     firstTx |-> JNull,
     lastTx |-> JNull]

\* lines 797-801: if (parsed.success) successfulTxs++ else failedTxs++
WithOutcome(sum, parsedTx) ==
    [sum EXCEPT !.successfulTxs = @ + (IF parsedTx.success THEN 1 ELSE 0),
                    !.failedTxs = @ + (IF parsedTx.success THEN 0 ELSE 1)]

\* map.set(key, (map.get(key) || 0) + 1)
Counted(map, key) ==
    IF \E i \in 1..Len(map) : map[i].key = key
    THEN [i \in 1..Len(map) |->
             IF map[i].key = key THEN [map[i] EXCEPT !.count = @ + 1] ELSE map[i]]
    ELSE Append(map, [key |-> key, count |-> 1])

\* msg['@type'] || msg.type || 'unknown'; reading a property of null or
\* undefined throws
MsgTypeOf(msg) ==
    IF Nullish(msg) THEN TypeError
    ELSE JOr(JOr(JGet(msg, "@type"), JGet(msg, "type")), JStr("unknown"))

\* event.type
EventTypeOf(event) == IF Nullish(event) THEN TypeError ELSE JGet(event, "type")

\* lines 804-807 and 810-812: the loops that count the types
RECURSIVE CountMessageTypes(_, _), CountEventTypes(_, _)
CountMessageTypes(map, messages) ==
    IF messages = <<>> THEN JArr(map)
    ELSE IF MsgTypeOf(messages[1]) = TypeError THEN TypeError
    ELSE CountMessageTypes(Counted(map, MsgTypeOf(messages[1])), Tail(messages))

CountEventTypes(map, events) ==
    IF events = <<>> THEN JArr(map)
    ELSE IF EventTypeOf(events[1]) = TypeError THEN TypeError
    ELSE CountEventTypes(Counted(map, EventTypeOf(events[1])), Tail(events))

\* the summary with the two maps given, or TypeError if a loop threw
WithMaps(sum, messageTypes, eventTypes) ==
    IF messageTypes = TypeError \/ eventTypes = TypeError THEN TypeError
    ELSE [sum EXCEPT !.messageTypes = messageTypes.items,
                         !.eventTypes = eventTypes.items]

\* lines 803-812; for ... of what is not iterable throws
WithTypes(sum, parsedTx) ==
    IF ~IsIterable(parsedTx.messages) THEN TypeError
    ELSE WithMaps(sum,
                  CountMessageTypes(sum.messageTypes, Iterated(parsedTx.messages)),
                  CountEventTypes(sum.eventTypes, parsedTx.events.items))

\* lines 816-822: the loop over the transfers
WithTransfers(sum, found) ==
    [sum EXCEPT
        !.sentTransfers =
            @ + Cardinality({i \in 1..Len(found) : found[i].direction = "sent"}),
        !.receivedTransfers =
            @ + Cardinality({i \in 1..Len(found) : found[i].direction = "received"})]

\* { hash: parsed.hash, height: parsed.height }
TxRef(parsedTx) == JObj([hash |-> parsedTx.hash, height |-> parsedTx.height])

IsEarlier_unset(parsedTx, firstTx) == ~JTruthy(firstTx)

\* !summary.firstTx || height < parseInt(summary.firstTx.height)
IsEarlier(parsedTx, firstTx) ==
    \/ ~JTruthy(firstTx)
    \/ JLess(JParseInt(parsedTx.height), JParseInt(JGet(firstTx, "height")))

\* !summary.lastTx || height > parseInt(summary.lastTx.height)
IsLater(parsedTx, lastTx) ==
    \/ ~JTruthy(lastTx)
    \/ JLess(JParseInt(JGet(lastTx, "height")), JParseInt(parsedTx.height))

\* lines 825-831
Tracked(sum, parsedTx) ==
    [sum EXCEPT !.firstTx = IF IsEarlier(parsedTx, @) THEN TxRef(parsedTx) ELSE @,
                    !.lastTx = IF IsLater(parsedTx, @) THEN TxRef(parsedTx) ELSE @]

\* The state of the loop over the transactions: the summary so far, the
\* records the loop is done with, as it leaves them, and whether it threw.
LoopState(threw, sum, after) == [threw |-> threw, summary |-> sum, after |-> after]

\* the loop left by an exception at a record
Threw(state, tx) == LoopState(TRUE, state.summary, Append(state.after, tx))

\* the body of the loop from the call of extractTransfers on
AfterTransfers(state, parsedTx, counted, extracted) ==
    IF extracted.returned = TypeError THEN Threw(state, extracted.tx)
    ELSE LoopState(FALSE,
                   Tracked(WithTransfers(counted, extracted.returned.items), parsedTx),
                   Append(state.after, extracted.tx))

\* the body of the loop once the types are counted: extractTransfers is
\* called with the record parseTransaction has just been through
AfterTypes(state, call, counted, address) ==
    IF counted = TypeError THEN Threw(state, call.tx)
    ELSE AfterTransfers(state, call.returned, counted, extractTransfers(call.tx, address))

\* the body of the loop once parseTransaction has returned or thrown
AfterParsed(state, call, address) ==
    IF call.returned = TypeError THEN Threw(state, call.tx)
    ELSE AfterTypes(state, call,
                    WithTypes(WithOutcome(state.summary, call.returned), call.returned),
                    address)

\* lines 793-832: for (const tx of transactions) { ... }
RECURSIVE SummaryLoop(_, _, _)
SummaryLoop(state, rest, address) ==
    IF rest = <<>> \/ state.threw THEN [state EXCEPT !.after = @ \o rest]
    ELSE SummaryLoop(AfterParsed(state, parseTransaction("TransactionFetcher", rest[1]),
                                 address),
                     Tail(rest), address)

\* the name of the property a key of a Map becomes
PropertyName(key) ==
    IF IsStr(key) THEN key.str
    ELSE IF key = JUndefined THEN Str("undefined")
    ELSE IF key = JNull THEN Str("null")
    ELSE Str("[object Object]")

\* Object.fromEntries(map): of the entries that become one property the
\* last one stays
fromEntries(map) ==
    [name \in {PropertyName(map[i].key) : i \in 1..Len(map)} |->
        map[SetMax({i \in 1..Len(map) : PropertyName(map[i].key) = name})].count]

\* lines 834-838, or the exception of the loop
Finished(state) ==
    IF state.threw THEN Returned(TypeError, state.after)
    ELSE Returned([state.summary EXCEPT !.messageTypes = fromEntries(@),
                                        !.eventTypes = fromEntries(@)],
                  state.after)

\* generateSummary(transactions, address): the summary or TypeError, and
\* the records of the list as the call leaves them
generateSummary(txs, address) ==
    Finished(SummaryLoop(LoopState(FALSE, InitialSummary(txs, address), <<>>),
                         txs, address))

InitSummary ==
    /\ spc = "input"
    /\ sumInput \in ListsUpTo(SummaryRecords, SumLen)
    /\ \E a \in 1..2 : sumAddress = JStr(Addresses[a])
    /\ sumTransactions = sumInput
    /\ summary = <<>>
    /\ summaryBefore = <<>>
    /\ DedupIdle
    /\ FetchIdle
    /\ EnvelopeIdle
    /\ AmountIdle
    /\ ParseIdle
    /\ RestIdle
    /\ WalletIdle

\* the call has returned or thrown
Summarised(call) ==
    /\ summary' = call.returned
    /\ sumTransactions' = call.tx
    /\ spc' = IF call.returned = TypeError THEN "threw" ELSE "summarised"

\* const summary = fetcher.generateSummary(transactions, address)
GenerateSummary ==
    /\ spc = "input"
    /\ Summarised(generateSummary(sumTransactions, sumAddress))
    /\ UNCHANGED <<sumInput, sumAddress, summaryBefore>>
    /\ UNCHANGED <<dvars, fvars, evars, avars, pvars, rvars, wvars>>

\* the list with the records at i and j exchanged
Swapped(list, i, j) ==
    [k \in 1..Len(list) |-> IF k = i THEN list[j] ELSE IF k = j THEN list[i] ELSE list[k]]

\* the same records are fetched again and come in another order
FetchReordered ==
    /\ spc = "summarised"
    /\ \E i, j \in 1..Len(sumInput) :
          /\ i < j
          /\ sumInput' = Swapped(sumInput, i, j)
    /\ sumInput' # sumInput
    /\ sumTransactions' = sumInput'
    /\ summaryBefore' = summary
    /\ summary' = <<>>
    /\ spc' = "input"
    /\ UNCHANGED sumAddress
    /\ UNCHANGED <<dvars, fvars, evars, avars, pvars, rvars, wvars>>

NextSummary == GenerateSummary \/ FetchReordered

SpecSummary == InitSummary /\ [][NextSummary]_vars

(***************************************************************************)
(* C21: for every non-empty list of transactions, generateSummary reports  *)
(* as firstTx a transaction of the list whose height is the least of the   *)
(* heights in the list and as lastTx one whose height is the greatest,     *)
(* whatever the order of the list; totalTransactions is the length of the  *)
(* list, and successfulTxs + failedTxs is totalTransactions.               *)
(***************************************************************************)
HeightOf(tx) == JParseInt(JGet(tx, "height")).num

\* ref names a record of the list
NamesOneOf(ref, list) ==
    \E i \in 1..Len(list) :
        /\ JGet(ref, "hash") = JGet(list[i], "hash")
        /\ JGet(ref, "height") = JGet(list[i], "height")

C21_Summary ==
    (spc = "summarised" /\ sumInput # <<>>) =>
        /\ NamesOneOf(summary.firstTx, sumInput)
        /\ \A i \in 1..Len(sumInput) : HeightOf(summary.firstTx) <= HeightOf(sumInput[i])
        /\ NamesOneOf(summary.lastTx, sumInput)
        /\ \A i \in 1..Len(sumInput) : HeightOf(summary.lastTx) >= HeightOf(sumInput[i])
        /\ summary.totalTransactions = Len(sumInput)
        /\ summary.successfulTxs + summary.failedTxs = summary.totalTransactions
        /\ summaryBefore # <<>> =>
              /\ HeightOf(summary.firstTx) = HeightOf(summaryBefore.firstTx)
              /\ HeightOf(summary.lastTx) = HeightOf(summaryBefore.lastTx)

\* three records that are not in the order of their heights, two of them at
\* the least height, summarised in two orders that report different records
\* as firstTx; some succeeded and some failed
C21_Witness ==
    /\ spc = "summarised"
    /\ Len(sumInput) = 3
    /\ HeightOf(sumInput[1]) > HeightOf(sumInput[2])
    /\ HeightOf(sumInput[2]) = HeightOf(sumInput[3])
    /\ summaryBefore # <<>>
    /\ summary.firstTx # summaryBefore.firstTx
    /\ HeightOf(summary.firstTx) < HeightOf(summary.lastTx)
    /\ summary.successfulTxs > 0
    /\ summary.failedTxs > 0

====
